---- MODULE Spec2Model ----
(***************************************************************************)
(* A model of PEParser in tools/re_scanner.py: the parsed image (byte      *)
(* buffer, load base, section table, recorded .text/.rdata/.data bounds)   *)
(* and its queries (address translation, reference scanning, function      *)
(* boundary recovery, signature generation).                               *)
(*                                                                         *)
(* The byte buffer self.data is a sequence of integers 0..255; the code's  *)
(* 0-based index k is position k + 1 of the sequence (operator B).         *)
(* A query is one action: it records the call in `call` and what the       *)
(* method returns in `ret`, and leaves the image alone.                    *)
(***************************************************************************)
EXTENDS Integers, Sequences, FiniteSets, TLC

VARIABLES
    data,           \* self.data
    base,           \* self.base
    sections,       \* self.sections: sequence of section records
    text_start, text_size, text_rva,
    rdata_start, rdata_size, rdata_rva,
    data_start, data_size, data_rva,
    call,           \* the last query and its arguments
    ret             \* what that query returned

image == <<data, base, sections, text_start, text_size, text_rva,
           rdata_start, rdata_size, rdata_rva, data_start, data_size, data_rva>>

vars == <<data, base, sections, text_start, text_size, text_rva,
          rdata_start, rdata_size, rdata_rva, data_start, data_size, data_rva,
          call, ret>>

(***************************************************************************)
(* Results of a method: a value, Python's None, or a raised exception.     *)
(***************************************************************************)
Some(x) == [kind |-> "value", val |-> x]

None == [kind |-> "None", val |-> 0]

Raised(e) == [kind |-> e, val |-> 0]

NoCall == [op |-> "none"]

Min2(a, b) == IF a <= b THEN a ELSE b

Max2(a, b) == IF a >= b THEN a ELSE b

\* len(self.data)
DataLen == Len(data)

\* self.data[k] for a 0-based index k inside the buffer
B(k) == data[k + 1]

\* a slice bound as Python reads it: a negative bound counts from the end of
\* the buffer, and every bound is clamped to 0..len(self.data)
SliceBound(x) == IF x < 0 THEN Max2(x + DataLen, 0) ELSE Min2(x, DataLen)

\* self.data[a:b]
Slice(a, b) ==
    LET lo == SliceBound(a)
        hi == SliceBound(b)
    IN  IF lo >= hi THEN << >> ELSE [k \in 1..(hi - lo) |-> data[lo + k]]

\* n copies of byte b
Fill(n, b) == [k \in 1..n |-> b]

(***************************************************************************)
(* _parse_pe, section loop: each section record is appended, and the last  *)
(* section named .text / .rdata / .data sets the recorded bounds, which    *)
(* start at 0.                                                             *)
(***************************************************************************)
Sec(n, vs, rv, rs, ro) ==
    [name |-> n, vsize |-> vs, rva |-> rv, raw_size |-> rs, raw_offset |-> ro]

RECURSIVE NamedField(_, _, _, _)
NamedField(secs, k, n, f) ==
    IF k = 0 THEN 0
    ELSE IF secs[k].name = n THEN secs[k][f]
    ELSE NamedField(secs, k - 1, n, f)

\* the field f recorded for the section name n after the loop over secs
Recorded(secs, n, f) == NamedField(secs, Len(secs), n, f)

\* the image after __init__ for buffer d, base b and section table secs
Constructed(d, b, secs) ==
    /\ data = d
    /\ base = b
    /\ sections = secs
    /\ text_start = Recorded(secs, ".text", "raw_offset")
    /\ text_size = Recorded(secs, ".text", "raw_size")
    /\ text_rva = Recorded(secs, ".text", "rva")
    /\ rdata_start = Recorded(secs, ".rdata", "raw_offset")
    /\ rdata_size = Recorded(secs, ".rdata", "raw_size")
    /\ rdata_rva = Recorded(secs, ".rdata", "rva")
    /\ data_start = Recorded(secs, ".data", "raw_offset")
    /\ data_size = Recorded(secs, ".data", "raw_size")
    /\ data_rva = Recorded(secs, ".data", "rva")
    /\ call = NoCall
    /\ ret = None

(***************************************************************************)
(* Address translation: a linear scan of the section table, first match    *)
(* wins.                                                                   *)
(***************************************************************************)
\* the test of rva_to_offset's loop body
RvaInSection(s, rva) == s.rva <= rva /\ rva < s.rva + s.raw_size

RvaInSectionVsize(s, rva) == s.rva <= rva /\ rva < s.rva + s.vsize

\* the test of offset_to_rva's loop body
OffsetInSection(s, offset) ==
    s.raw_offset <= offset /\ offset < s.raw_offset + s.raw_size

\* a translation that forgets the section's file offset
RECURSIVE RvaToOffsetNoRaw(_, _)
RvaToOffsetNoRaw(k, rva) ==
    IF k > Len(sections) THEN None
    ELSE IF RvaInSection(sections[k], rva)
         THEN Some(rva - sections[k].rva)
    ELSE RvaToOffsetNoRaw(k + 1, rva)

RECURSIVE RvaToOffsetFrom(_, _)
RvaToOffsetFrom(k, rva) ==
    IF k > Len(sections) THEN None
    ELSE IF RvaInSection(sections[k], rva)
         THEN Some(rva - sections[k].rva + sections[k].raw_offset)
    ELSE RvaToOffsetFrom(k + 1, rva)

rva_to_offset(rva) == RvaToOffsetFrom(1, rva)

RECURSIVE OffsetToRvaFrom(_, _)
OffsetToRvaFrom(k, offset) ==
    IF k > Len(sections) THEN None
    ELSE IF OffsetInSection(sections[k], offset)
         THEN Some(offset - sections[k].raw_offset + sections[k].rva)
    ELSE OffsetToRvaFrom(k + 1, offset)

offset_to_rva(offset) == OffsetToRvaFrom(1, offset)

\* a translation called with None: the loop body's comparison of None with an
\* integer raises at the first section, and a loop over no section returns
\* None without comparing anything
OfNone == IF Len(sections) = 0 THEN None ELSE Raised("TypeError")

\* rva_to_offset(offset_to_rva(o))
RoundTripOffset(o) ==
    LET r == offset_to_rva(o)
    IN  IF r = None THEN OfNone ELSE rva_to_offset(r.val)

\* offset_to_rva(rva_to_offset(r))
RoundTripRva(r) ==
    LET o == rva_to_offset(r)
    IN  IF o = None THEN OfNone ELSE offset_to_rva(o.val)

(***************************************************************************)
(* The scanner is single-threaded and synchronous: a query starts when no  *)
(* other is outstanding, and its caller takes the result before the next.  *)
(***************************************************************************)
Idle == call = NoCall

Return ==
    /\ call # NoCall
    /\ call' = NoCall
    /\ ret' = None
    /\ UNCHANGED image

(***************************************************************************)
(* The address-translation specification: every section table of up to    *)
(* two sections over small address sets, overlapping or not, with virtual  *)
(* sizes below, equal to and above the file sizes.                         *)
(***************************************************************************)
MaxSecSize == 2

SectionCounts == {0, 1, 2}

SecRvas == {4, 6}

SecOffsets == {0, 1}

AddrSections ==
    { Sec(n, vs, rv, rs, ro) : n \in {".text"}, vs \in 0..MaxSecSize + 1,
                               rv \in SecRvas, rs \in 0..MaxSecSize, ro \in SecOffsets }

AddrTables ==
    UNION { [1..n -> AddrSections] : n \in SectionCounts }

\* the addresses queried: every one inside some range, and both neighbours
AddrArgs == 0..(6 + MaxSecSize + 2)

InitAddr ==
    \E secs \in AddrTables : Constructed(<< >>, 4096, secs)

QRvaToOffset ==
    \E r \in AddrArgs :
        /\ Idle
        /\ call' = [op |-> "rva_to_offset", rva |-> r]
        /\ ret' = rva_to_offset(r)
        /\ UNCHANGED image

QOffsetToRva ==
    \E o \in AddrArgs :
        /\ Idle
        /\ call' = [op |-> "offset_to_rva", offset |-> o]
        /\ ret' = offset_to_rva(o)
        /\ UNCHANGED image

QRoundTripOffset ==
    \E o \in AddrArgs :
        /\ Idle
        /\ call' = [op |-> "roundtrip_offset", offset |-> o]
        /\ ret' = RoundTripOffset(o)
        /\ UNCHANGED image

QRoundTripRva ==
    \E r \in AddrArgs :
        /\ Idle
        /\ call' = [op |-> "roundtrip_rva", rva |-> r]
        /\ ret' = RoundTripRva(r)
        /\ UNCHANGED image

NextAddr ==
    QRvaToOffset \/ QOffsetToRva \/ QRoundTripOffset \/ QRoundTripRva \/ Return

SpecAddr == InitAddr /\ [][NextAddr]_vars

(***************************************************************************)
(* find_string_xrefs: a linear scan of the .text bytes for position-       *)
(* relative operands (ModRM mod = 0, rm = 5) whose target is the string.   *)
(***************************************************************************)
\* (modrm >> 6) & 3
ModOf(modrm) == (modrm \div 64) % 4

\* modrm & 7
RmOf(modrm) == modrm % 8

\* (modrm >> 3) & 7
RegOf(modrm) == (modrm \div 8) % 8

\* struct.unpack_from('<i', d, k): the signed little-endian 32-bit value of the
\* four bytes of sequence d at 0-based index k
I32(d, k) ==
    d[k + 1] + 256 * d[k + 2] + 65536 * d[k + 3]
        + 16777216 * (IF d[k + 4] >= 128 THEN d[k + 4] - 256 ELSE d[k + 4])

\* self.data[self.text_start:self.text_start + self.text_size]
TextData == Slice(text_start, text_start + text_size)

\* the common test of the five forms: mod = 0 and rm = 5, and the target of
\* an instruction of length n at i, displacement at i + n - 4, is string_va
RipTarget(td, i, n) == (base + text_rva + i) + n + I32(td, i + n - 4)

RipHit(td, i, modrm, n, string_va) ==
    /\ ModOf(modrm) = 0
    /\ RmOf(modrm) = 5
    /\ RipTarget(td, i, n) = string_va

\* what one iteration of the loop appends to xrefs, in the order of the code
XrefsAt(td, i, text_end, string_va) ==
    LET b0 == td[i + 1]
        b1 == IF i + 1 < text_end THEN td[i + 2] ELSE 0
        hit == << text_start + i >>
    IN  (IF b0 \in {72, 76} /\ b1 = 141 /\ i + 6 < text_end
            /\ RipHit(td, i, td[i + 3], 7, string_va) THEN hit ELSE << >>)
        \o (IF b0 = 141 /\ i + 5 < text_end
            /\ RipHit(td, i, b1, 6, string_va) THEN hit ELSE << >>)
        \o (IF b0 \in {72, 76} /\ b1 = 139 /\ i + 6 < text_end
            /\ RipHit(td, i, td[i + 3], 7, string_va) THEN hit ELSE << >>)
        \o (IF b0 \in {72, 76} /\ b1 = 137 /\ i + 6 < text_end
            /\ RipHit(td, i, td[i + 3], 7, string_va) THEN hit ELSE << >>)
        \o (IF b0 = 72 /\ b1 \in {57, 59} /\ i + 6 < text_end
            /\ RipHit(td, i, td[i + 3], 7, string_va) THEN hit ELSE << >>)

\* for i in range(text_end)
RECURSIVE XrefScan(_, _, _, _)
XrefScan(td, i, text_end, string_va) ==
    IF i >= text_end THEN << >>
    ELSE XrefsAt(td, i, text_end, string_va) \o XrefScan(td, i + 1, text_end, string_va)

find_string_xrefs(string_offset) ==
    LET string_rva == offset_to_rva(string_offset)
    IN  IF string_rva = None THEN << >>
        ELSE XrefScan(TextData, 0, Len(TextData) - 7, base + string_rva.val)

(***************************************************************************)
(* The reference-scanning specification: a file of XrefFileStart bytes, a  *)
(* .text region holding filler, one instruction head with its 32-bit       *)
(* displacement and more filler, and an optional .rdata tail.  The region  *)
(* is long enough for an instruction to lie before and inside its last 13  *)
(* bytes.                                                                  *)
(***************************************************************************)
MaxPre == 1

MaxPost == 8

XrefHeads ==
    { <<72, 141, 5>>, <<76, 141, 13>>, <<141, 5>>, <<72, 139, 5>>, <<76, 139, 21>>,
      <<72, 137, 5>>, <<72, 57, 5>>, <<72, 59, 13>>,
      <<72, 139, 69>>, <<72, 139, 4>>, <<76, 57, 5>> }

XrefDisps ==
    { <<0, 0, 0, 0>>, <<1, 0, 0, 0>>, <<249, 255, 255, 255>>, <<248, 255, 255, 255>> }

XrefFillers == {144, 0}

XrefFileStarts == {0, 1}

XrefTails == {0, 2}

XrefTextRvas == {32}

XrefBases == {4096, 65536}

XrefImage(fs, pre, head, disp, post, f, tail, b, rv) ==
    LET region == Fill(pre, f) \o head \o disp \o Fill(post, f)
        secs == << Sec(".text", Len(region), rv, Len(region), fs) >>
                \o (IF tail = 0 THEN << >>
                    ELSE << Sec(".rdata", tail, rv + Len(region),
                                tail, fs + Len(region)) >>)
    IN  Constructed(Fill(fs, 0) \o region \o Fill(tail, f), b, secs)

InitXref ==
    \E fs \in XrefFileStarts, pre \in 0..MaxPre, head \in XrefHeads,
       disp \in XrefDisps, post \in 0..MaxPost, f \in XrefFillers, tail \in XrefTails,
       b \in XrefBases, rv \in XrefTextRvas :
        XrefImage(fs, pre, head, disp, post, f, tail, b, rv)

QFindStringXrefs ==
    \E string_offset \in 0..DataLen :
        /\ Idle
        /\ call' = [op |-> "find_string_xrefs", string_offset |-> string_offset]
        /\ ret' = find_string_xrefs(string_offset)
        /\ UNCHANGED image

NextXref == QFindStringXrefs \/ QOffsetToRva \/ Return

SpecXref == InitXref /\ [][NextXref]_vars

(***************************************************************************)
(* _is_prologue: the fixed byte sequences accepted as a function entry.    *)
(***************************************************************************)
is_prologue(offset) ==
    IF offset + 5 > DataLen THEN FALSE
    ELSE LET d0 == B(offset)
             d1 == B(offset + 1)
             d2 == B(offset + 2)
             d3 == B(offset + 3)
         IN  \/ d0 = 72 /\ d1 = 137 /\ d2 = 92 /\ d3 = 36       \* mov [rsp+xx], rbx
             \/ d0 = 72 /\ d1 = 137 /\ d2 = 116 /\ d3 = 36      \* mov [rsp+xx], rsi
             \/ d0 = 72 /\ d1 = 137 /\ d2 = 76 /\ d3 = 36       \* mov [rsp+xx], rcx
             \/ d0 = 72 /\ d1 = 137 /\ d2 = 84 /\ d3 = 36       \* mov [rsp+xx], rdx
             \/ d0 = 72 /\ d1 = 137 /\ d2 = 108 /\ d3 = 36      \* mov [rsp+xx], rbp
             \/ d0 = 76 /\ d1 = 137 /\ d2 = 68 /\ d3 = 36       \* mov [rsp+xx], r8
             \/ d0 = 76 /\ d1 = 137 /\ d2 = 76 /\ d3 = 36       \* mov [rsp+xx], r9
             \/ d0 = 64 /\ d1 = 83                              \* push rbx
             \/ d0 = 64 /\ d1 = 85                              \* push rbp
             \/ d0 = 64 /\ d1 = 86                              \* push rsi
             \/ d0 = 64 /\ d1 = 87                              \* push rdi
             \/ d0 = 72 /\ d1 = 131 /\ d2 = 236                 \* sub rsp, imm8
             \/ d0 = 72 /\ d1 = 129 /\ d2 = 236                 \* sub rsp, imm32
             \/ d0 = 72 /\ d1 = 139 /\ d2 = 236                 \* mov rbp, rsp
             \/ d0 = 85 /\ d1 \in {72, 139}                     \* push rbp; REX
             \/ d0 = 83 /\ d1 = 72                              \* push rbx; REX
             \/ d0 = 86 /\ d1 = 72                              \* push rsi; REX
             \/ d0 = 87 /\ d1 = 72                              \* push rdi; REX
             \/ d0 = 65 /\ d1 \in {84, 85, 86, 87}              \* push r12..r15

(***************************************************************************)
(* find_function_start: three backward scans from offset - 1 down to       *)
(* search_start + 1, the first that returns wins.                          *)
(***************************************************************************)
DefaultMaxSearch == 2048

Tier2Limit == 512

Tier3Limit == 256

\* a lower bound that the scans would visit
SearchStartInclusive(offset, max_search) == Max2(text_start, offset - max_search) - 1

\* max(self.text_start, offset - max_search)
SearchStart(offset, max_search) == Max2(text_start, offset - max_search)

\* while candidate < offset and d[candidate] == 0xCC: candidate += 1
RECURSIVE SkipTrap(_, _)
SkipTrap(candidate, offset) ==
    IF candidate < offset /\ B(candidate) = 204
    THEN SkipTrap(candidate + 1, offset)
    ELSE candidate

\* for i in range(from, search_start, -1): the first index at which the
\* loop body returns is the greatest index of the range that satisfies the
\* body's test; Nearest names it among the indices that satisfy it
Nearest(hits) == CHOOSE j \in hits : \A k \in hits : k <= j

\* Strategy 1, from index i down
Tier1From(i, search_start, offset) ==
    LET hits == { j \in (search_start + 1)..i :
                    /\ B(j) \in {204, 195}
                    /\ SkipTrap(j + 1, offset) < offset
                    /\ is_prologue(SkipTrap(j + 1, offset)) }
    IN  IF hits = {} THEN None
        ELSE Some(SkipTrap(Nearest(hits) + 1, offset))

\* Strategy 2, from index i down
Tier2From(i, search_start, offset) ==
    LET hits == { j \in (search_start + 1)..i :
                    /\ is_prologue(j) /\ (offset - j) < Tier2Limit
                    /\ j > 0 /\ B(j - 1) \in {204, 195, 203} }
    IN  IF hits = {} THEN None ELSE Some(Nearest(hits))

\* Strategy 3, from index i down
Tier3From(i, search_start, offset) ==
    LET hits == { j \in (search_start + 1)..i :
                    is_prologue(j) /\ (offset - j) < Tier3Limit }
    IN  IF hits = {} THEN None ELSE Some(Nearest(hits))

\* a first scan that stops one index short of the lower end of the range
Tier1Narrow(offset, max_search) ==
    Tier1From(offset - 1, SearchStart(offset, max_search) + 1, offset)

Tier1(offset, max_search) ==
    Tier1From(offset - 1, SearchStart(offset, max_search), offset)

Tier2(offset, max_search) ==
    Tier2From(offset - 1, SearchStart(offset, max_search), offset)

Tier3(offset, max_search) ==
    Tier3From(offset - 1, SearchStart(offset, max_search), offset)

find_function_start(offset, max_search) ==
    LET t1 == Tier1(offset, max_search)
        t2 == Tier2(offset, max_search)
        t3 == Tier3(offset, max_search)
    IN  IF t1 # None THEN t1 ELSE IF t2 # None THEN t2 ELSE t3

(***************************************************************************)
(* The function-boundary specification: a .text region of the shape        *)
(* lead, prologue-like bytes, filler, an optional second piece, filler.    *)
(* The short images combine every lead, entry and second piece; the long   *)
(* images put the interior offsets 255..257 and 511..513 bytes after the   *)
(* entry, on both sides of the tier limits.                                *)
(***************************************************************************)
MaxBack == 2

ShortLimit == 40

FuncLeads ==
    { << >>, <<195>>, <<204>>, <<203>>, <<144>>, <<195, 144, 144>>,
      <<195, 204, 204>>, <<144, 195>>, <<144, 195, 204>>, <<144, 144>> }

FuncEntries ==
    { <<72, 131, 236, 40>>, <<64, 83>>, <<72, 137, 92, 36, 8>>, <<72, 139, 236>>,
      <<72, 137, 229>>, <<85, 72>>, <<144, 144>> }

FuncSeconds ==
    { << >>, <<64, 83>>, <<195, 64, 83>>, <<204>>, <<203, 65, 84>>,
      <<195, 144, 64, 85>> }

FuncGaps == {1, 3}

LongLeads ==
    { <<195, 144, 144>>, <<195>>, <<144, 195>>, <<144, 203>>, <<144, 144>>,
      <<144, 195, 144>> }

LongGaps == {252, 253, 508, 509}

FuncFileStarts == {0, 1}

FuncSearches == {DefaultMaxSearch, 300, 7}

FuncImage(fs, lead, entry, gap, second, gap2) ==
    LET region == lead \o entry \o Fill(gap, 144) \o second \o Fill(gap2, 144)
    IN  Constructed(Fill(fs, 0) \o region, 4096,
                    << Sec(".text", Len(region), 4096, Len(region), fs) >>)

InitFunc ==
    \/ \E fs \in FuncFileStarts, lead \in FuncLeads, entry \in FuncEntries,
          gap \in FuncGaps, second \in FuncSeconds :
           FuncImage(fs, lead, entry, gap, second, 5)
    \/ \E fs \in FuncFileStarts, lead \in LongLeads, gap \in LongGaps :
           FuncImage(fs, lead, <<72, 131, 236, 40>>, gap, << >>, 0)

\* the interior offsets queried: all of a short image, the last of a long one
FuncOffsets ==
    IF DataLen <= ShortLimit THEN 0..DataLen ELSE (DataLen - MaxBack)..DataLen

QFindFunctionStart ==
    \E offset \in FuncOffsets, max_search \in FuncSearches :
        /\ Idle
        /\ call' = [op |-> "find_function_start", offset |-> offset,
                    max_search |-> max_search]
        /\ ret' = find_function_start(offset, max_search)
        /\ UNCHANGED image

QIsPrologue ==
    \E offset \in FuncOffsets :
        /\ Idle
        /\ call' = [op |-> "is_prologue", offset |-> offset]
        /\ ret' = Some(is_prologue(offset))
        /\ UNCHANGED image

NextFunc == QFindFunctionStart \/ QIsPrologue \/ Return

SpecFunc == InitFunc /\ [][NextFunc]_vars

(***************************************************************************)
(* make_smart_pattern: one left-to-right scan of the window marks the      *)
(* wildcard positions, then every byte is rendered as '?' or two uppercase *)
(* hexadecimal digits, joined by single spaces.  A string is modelled as   *)
(* the sequence of its characters.                                         *)
(***************************************************************************)
DefaultLength == 32

\* d[k] for a 0-based index k of the window d
D(d, k) == d[k + 1]

\* range(a, b) as a set
Range(a, b) == a..(b - 1)

\* mov [rsp+disp8], reg: what lines 274-282 add to wildcards at i
SpillWild(d, i) ==
    IF i + 4 < Len(d) /\ D(d, i) \in {72, 76} /\ D(d, i + 1) = 137
          /\ ModOf(D(d, i + 2)) = 1
    THEN (IF RmOf(D(d, i + 2)) = 4 THEN {i + 4} ELSE {i + 3})
    ELSE {}

\* sub rsp, imm8: what lines 285-286 add
Sub8Wild(d, i) ==
    IF i + 3 < Len(d) /\ D(d, i) = 72 /\ D(d, i + 1) = 131 /\ D(d, i + 2) = 236
    THEN {i + 3} ELSE {}

\* sub rsp, imm32: what lines 289-291 add
Sub32Wild(d, i) ==
    IF i + 6 < Len(d) /\ D(d, i) = 72 /\ D(d, i + 1) = 129 /\ D(d, i + 2) = 236
    THEN { i + j : j \in Range(3, 7) } ELSE {}

\* CALL rel32 (opcode 0xE8) or JMP rel32 (0xE9) at i
IsRel32(d, i, opcode) == D(d, i) = opcode /\ i + 4 < Len(d)

\* LEA with RIP-relative operand at i
IsRipLea(d, i) ==
    /\ i + 6 < Len(d) /\ D(d, i) \in {72, 76} /\ D(d, i + 1) = 141
    /\ ModOf(D(d, i + 2)) = 0 /\ RmOf(D(d, i + 2)) = 5

\* MOV with RIP-relative operand at i
IsRipMov(d, i) ==
    /\ i + 6 < Len(d) /\ D(d, i) \in {72, 76} /\ D(d, i + 1) \in {139, 137}
    /\ ModOf(D(d, i + 2)) = 0 /\ RmOf(D(d, i + 2)) = 5

\* the displacement taken one byte early
RipWildEarly(i) == { i + j : j \in Range(2, 6) }

\* the wildcard positions of a position-relative operand at i: range(3, 7)
RipWild(i) == { i + j : j \in Range(3, 7) }

\* the wildcard positions of a rel32 operand at i: range(1, 5)
Rel32Wild(i) == { i + j : j \in Range(1, 5) }

\* the while loop from position i with the wildcards collected so far
RECURSIVE PatScan(_, _, _)
PatScan(d, i, wildcards) ==
    IF ~(i < Len(d)) THEN wildcards
    ELSE LET w == wildcards \cup SpillWild(d, i) \cup Sub8Wild(d, i) \cup Sub32Wild(d, i)
         IN  IF IsRel32(d, i, 232) THEN PatScan(d, i + 5, w \cup Rel32Wild(i))
             ELSE IF IsRel32(d, i, 233) THEN PatScan(d, i + 5, w \cup Rel32Wild(i))
             ELSE IF IsRipLea(d, i) THEN PatScan(d, i + 7, w \cup RipWild(i))
             ELSE IF IsRipMov(d, i) THEN PatScan(d, i + 7, w \cup RipWild(i))
             ELSE PatScan(d, i + 1, w)

HexDigits ==
    << "0", "1", "2", "3", "4", "5", "6", "7", "8", "9", "A", "B", "C", "D", "E", "F" >>

\* a rendering with the two digits in the wrong order
Hex2LowFirst(b) == << HexDigits[(b % 16) + 1], HexDigits[(b \div 16) + 1] >>

\* f'{b:02X}'
Hex2(b) == << HexDigits[(b \div 16) + 1], HexDigits[(b % 16) + 1] >>

\* ' '.join(parts)
RECURSIVE JoinSpace(_)
JoinSpace(parts) ==
    IF parts = << >> THEN << >>
    ELSE IF Len(parts) = 1 THEN parts[1]
    ELSE parts[1] \o << " " >> \o JoinSpace(Tail(parts))

\* lines 331-337: the pattern text of window d with the given wildcards
Render(d, wildcards) ==
    JoinSpace([j \in 1..Len(d) |->
                  IF (j - 1) \in wildcards THEN << "?" >> ELSE Hex2(d[j])])

\* lines 266-268: the window, cut at the end of the buffer; a length below
\* -func_offset is left as it is and gives a slice end counted from the end
Window(func_offset, length) ==
    Slice(func_offset,
          func_offset + (IF func_offset + length > DataLen
                         THEN DataLen - func_offset ELSE length))

\* a generator that decodes the bytes after the window too
MakePatternLookahead(func_offset, length) ==
    LET d == Window(func_offset, length)
        tail == Slice(func_offset, DataLen)
    IN  Render(d, PatScan(tail, 0, {}))

make_smart_pattern(func_offset, length) ==
    LET d == Window(func_offset, length)
    IN  Render(d, PatScan(d, 0, {}))

(***************************************************************************)
(* The signature specification: buffers of up to MaxPieces pieces, each    *)
(* the head of a recognized form, a call or jump opcode, or filler, so     *)
(* that complete forms, forms cut by the window's end and immediates that  *)
(* are themselves opcodes all occur.                                       *)
(***************************************************************************)
MaxPieces == 3

PatPieces ==
    { <<72, 131, 236>>, <<72, 129, 236>>, <<72, 141, 5>>, <<76, 139, 13>>,
      <<72, 137, 92, 36>>, <<72, 137, 67>>, <<232, 16>>, <<233>>,
      <<16>>, <<16, 16, 16, 16>> }

PatLengths == {DefaultLength, 0, 2, 7, -1, -3}

RECURSIVE Concat(_)
Concat(ps) == IF ps = << >> THEN << >> ELSE Head(ps) \o Concat(Tail(ps))

PatBuffers ==
    { Concat(ps) : ps \in UNION { [1..n -> PatPieces] : n \in 0..MaxPieces } }

InitPat ==
    \E d \in PatBuffers :
        Constructed(d, 4096, << Sec(".text", Len(d), 4096, Len(d), 0) >>)

QMakeSmartPattern ==
    \E func_offset \in 0..DataLen, length \in PatLengths :
        /\ Idle
        /\ call' = [op |-> "make_smart_pattern", func_offset |-> func_offset,
                    length |-> length]
        /\ ret' = Some(make_smart_pattern(func_offset, length))
        /\ UNCHANGED image

NextPat == QMakeSmartPattern \/ Return

SpecPat == InitPat /\ [][NextPat]_vars

(***************************************************************************)
(* extract_struct_offsets_from_function: one left-to-right scan of the     *)
(* function body that records the displacement of each recognized memory   *)
(* operand in a dict, displacement -> description; a later record of the   *)
(* same displacement overwrites the earlier one.  The dict is modelled as  *)
(* a function on its set of keys, a description as its characters.         *)
(***************************************************************************)
DefaultMaxScan == 512

\* offsets_found = {}
EmptyDict == [k \in {} |-> << >>]

\* offsets_found[k] = v
Put(f, k, v) == [x \in DOMAIN f \cup {k} |-> IF x = k THEN v ELSE f[x]]

\* f'{n:X}' for n >= 0
RECURSIVE HexUpper(_)
HexUpper(n) ==
    IF n < 16 THEN << HexDigits[n + 1] >>
    ELSE HexUpper(n \div 16) \o << HexDigits[(n % 16) + 1] >>

\* f'[r{rm}+0x{disp:X}]'
MemOperand(rm, disp) ==
    << "[", "r", HexDigits[rm + 1], "+", "0", "x" >> \o HexUpper(disp) \o << "]" >>

\* {0x8B: 'MOV', 0x89: 'MOV_STORE', 0x8D: 'LEA'}[d[i+1]]
OpName(b1) ==
    IF b1 = 139 THEN << "M", "O", "V" >>
    ELSE IF b1 = 137 THEN << "M", "O", "V", "_", "S", "T", "O", "R", "E" >>
    ELSE << "L", "E", "A" >>

\* f"{opname} r{reg}, [r{rm}+0x{disp:X}]"
MovTag(b1, reg, rm, disp) ==
    OpName(b1) \o << " ", "r", HexDigits[reg + 1], ",", " " >> \o MemOperand(rm, disp)

\* f"MOVSS xmm, [r{rm}+0x{disp:X}]"
MovssTag(rm, disp) ==
    << "M", "O", "V", "S", "S", " ", "x", "m", "m", ",", " " >> \o MemOperand(rm, disp)

\* f"MOVSS_STORE [r{rm}+0x{disp:X}], xmm"
MovssStoreTag(rm, disp) ==
    << "M", "O", "V", "S", "S", "_", "S", "T", "O", "R", "E", " " >>
        \o MemOperand(rm, disp) \o << ",", " ", "x", "m", "m" >>

\* a range test that lets the zero displacement through
Disp32InRangeFromZero(disp) == 0 <= disp /\ disp < 4096

\* 0 < disp < 0x1000
Disp32InRange(disp) == 0 < disp /\ disp < 4096

\* 0 < disp < 0xFF
Disp8InRange(disp) == 0 < disp /\ disp < 255

\* a stop test that knows the near return only
IsTerminatorNearOnly(b) == b = 195

\* d[i] == 0xC3 or d[i] == 0xCB
IsTerminator(b) == b = 195 \/ b = 203

\* min(func_offset + max_scan, len(self.data) - 8)
ScanEnd(func_offset, max_scan) == Min2(func_offset + max_scan, DataLen - 8)

\* the test of line 432: REX.W MOV / MOV store / LEA at i
IsMovForm(i, end) ==
    i + 6 < end /\ B(i) \in {72, 76} /\ B(i + 1) \in {139, 137, 141}

\* the test of lines 453 and 471: F3 0F <op> at i
IsMovssForm(i, end, op) ==
    i + 7 < end /\ B(i) = 243 /\ B(i + 1) = 15 /\ B(i + 2) = op

\* the while loop from position i with the dict collected so far
RECURSIVE OffsetScan(_, _, _)
OffsetScan(i, end, found) ==
    IF ~(i < end) THEN found
    ELSE IF IsTerminator(B(i)) THEN found
    ELSE LET m3 == B(i + 2)
             m4 == B(i + 3)
         IN  IF IsMovForm(i, end) /\ ModOf(m3) = 2 /\ RmOf(m3) # 4
             THEN LET disp == I32(data, i + 3)
                  IN  OffsetScan(i + 7, end,
                          IF Disp32InRange(disp)
                          THEN Put(found, disp, MovTag(B(i + 1), RegOf(m3), RmOf(m3), disp))
                          ELSE found)
             ELSE IF IsMovForm(i, end) /\ ModOf(m3) = 1 /\ RmOf(m3) # 4
             THEN LET disp == B(i + 3)
                  IN  OffsetScan(i + 4, end,
                          IF Disp8InRange(disp)
                          THEN Put(found, disp, MovTag(B(i + 1), RegOf(m3), RmOf(m3), disp))
                          ELSE found)
             ELSE IF IsMovssForm(i, end, 16) /\ ModOf(m4) = 2 /\ RmOf(m4) # 4
             THEN LET disp == I32(data, i + 4)
                  IN  OffsetScan(i + 8, end,
                          IF Disp32InRange(disp)
                          THEN Put(found, disp, MovssTag(RmOf(m4), disp))
                          ELSE found)
             ELSE IF IsMovssForm(i, end, 16) /\ ModOf(m4) = 1 /\ RmOf(m4) # 4
             THEN LET disp == B(i + 4)
                  IN  OffsetScan(i + 5, end,
                          IF Disp8InRange(disp)
                          THEN Put(found, disp, MovssTag(RmOf(m4), disp))
                          ELSE found)
             ELSE IF IsMovssForm(i, end, 17) /\ ModOf(m4) = 2 /\ RmOf(m4) # 4
             THEN LET disp == I32(data, i + 4)
                  IN  OffsetScan(i + 8, end,
                          IF Disp32InRange(disp)
                          THEN Put(found, disp, MovssStoreTag(RmOf(m4), disp))
                          ELSE found)
             ELSE OffsetScan(i + 1, end, found)

extract_struct_offsets_from_function(func_offset, max_scan) ==
    OffsetScan(func_offset, ScanEnd(func_offset, max_scan), EmptyDict)

(***************************************************************************)
(* The operand-offset specification: a body of up to two pieces after a    *)
(* lead of filler and before a tail of filler.  A piece is a recognized    *)
(* or near-recognized instruction head with a displacement on, inside and  *)
(* outside the recorded ranges (0xC3 among them), a terminator, a filler   *)
(* byte or a register-to-register move whose ModRM byte is 0xC3.  The      *)
(* tails put the last instruction on both sides of the end-of-buffer       *)
(* guard; the caps cut the scan before, inside and after the body.         *)
(***************************************************************************)
MaxLead == 1

OffPieceCounts == {0, 1, 2}

\* heads whose ModRM byte has mod = 1: rm = 3, and rm = 4 (SIB follows)
OffHeads8 ==
    { <<72, 139, 67>>, <<76, 137, 67>>, <<72, 141, 67>>, <<243, 15, 16, 67>>,
      <<243, 15, 17, 67>>, <<72, 139, 68>> }

\* heads whose ModRM byte has mod = 2: rm = 3, and rm = 4
OffHeads32 ==
    { <<72, 139, 131>>, <<76, 137, 131>>, <<72, 141, 131>>, <<243, 15, 16, 131>>,
      <<243, 15, 17, 131>>, <<72, 139, 132>> }

OffDisps8 == { <<0>>, <<1>>, <<16>>, <<195>>, <<254>>, <<255>> }

OffDisps32 ==
    { <<0, 0, 0, 0>>, <<1, 0, 0, 0>>, <<255, 15, 0, 0>>, <<0, 16, 0, 0>>,
      <<255, 255, 255, 255>>, <<195, 0, 0, 0>> }

OffPieces ==
    { h \o w : h \in OffHeads8, w \in OffDisps8 }
        \cup { h \o w : h \in OffHeads32, w \in OffDisps32 }
        \cup { <<195>>, <<203>>, <<144>>, <<72, 139, 195>> }

OffBodies ==
    { Concat(ps) : ps \in UNION { [1..n -> OffPieces] : n \in OffPieceCounts } }

\* longer bodies: an instruction whose displacement byte is a terminator
\* value, a second instruction, a terminator and a third instruction
OffChains ==
    { a \o b \o t \o <<72, 141, 67, 48>> :
        a \in { <<72, 139, 67, 195>>, <<243, 15, 16, 67, 203>> },
        b \in { <<72, 139, 67, 16>>, <<243, 15, 17, 131, 32, 0, 0, 0>> },
        t \in { <<195>>, <<203>> } }

OffTails == {8, 11}

OffScans == {DefaultMaxScan, 4, 11}

InitOff ==
    \E lead \in 0..MaxLead, body \in OffBodies \cup OffChains, tail \in OffTails :
        LET d == Fill(lead, 144) \o body \o Fill(tail, 144)
        IN  Constructed(d, 4096, << Sec(".text", Len(d), 4096, Len(d), 0) >>)

QExtractStructOffsets ==
    \E func_offset \in 0..MaxLead, max_scan \in OffScans :
        /\ Idle
        /\ call' = [op |-> "extract_struct_offsets_from_function",
                    func_offset |-> func_offset, max_scan |-> max_scan]
        /\ ret' = Some(extract_struct_offsets_from_function(func_offset, max_scan))
        /\ UNCHANGED image

NextOff == QExtractStructOffsets \/ Return

SpecOff == InitOff /\ [][NextOff]_vars

(***************************************************************************)
(* Unsigned values wider than a machine integer of the checker.  Python's  *)
(* integers are unbounded; a value of up to 64 bits is modelled by three   *)
(* limbs, value = lo + 2^24 * mid + 2^48 * hi with lo, mid < 2^24.         *)
(***************************************************************************)
Limb == 16777216

\* the wide form of an integer 0 <= n < 2^31
WideOf(n) == [lo |-> n % Limb, mid |-> n \div Limb, hi |-> 0]

\* a < b
WideLess(a, b) ==
    \/ a.hi < b.hi
    \/ a.hi = b.hi /\ a.mid < b.mid
    \/ a.hi = b.hi /\ a.mid = b.mid /\ a.lo < b.lo

\* a <= b
WideLeq(a, b) == ~WideLess(b, a)

\* a - b for a >= b
WideSub(a, b) ==
    LET l == a.lo - b.lo
        bl == IF l < 0 THEN 1 ELSE 0
        m == a.mid - b.mid - bl
        bm == IF m < 0 THEN 1 ELSE 0
    IN  [lo |-> l + bl * Limb, mid |-> m + bm * Limb, hi |-> a.hi - b.hi - bm]

\* the integer a wide value below 2^31 stands for
WideInt(a) == a.lo + Limb * a.mid

\* struct.unpack_from('<Q', d, k)[0]: the unsigned little-endian 64-bit value
\* of the eight bytes of sequence d at 0-based index k
U64(d, k) ==
    [lo |-> d[k + 1] + 256 * d[k + 2] + 65536 * d[k + 3],
     mid |-> d[k + 4] + 256 * d[k + 5] + 65536 * d[k + 6],
     hi |-> d[k + 7] + 256 * d[k + 8]]

\* struct.unpack_from('<I', d, k)[0]: the unsigned little-endian 32-bit value
U32(d, k) ==
    [lo |-> d[k + 1] + 256 * d[k + 2] + 65536 * d[k + 3], mid |-> d[k + 4], hi |-> 0]

\* struct.pack('<Q', n) for 0 <= n < 2^31
Pack64(n) ==
    << n % 256, (n \div 256) % 256, (n \div 65536) % 256, n \div Limb, 0, 0, 0, 0 >>

(***************************************************************************)
(* scan_vtable_in_rdata and _find_vtable_start: the .rdata bytes are read  *)
(* as 8-byte words at offsets 0, 8, ...; each word equal to a known        *)
(* function address yields a match record, whose table start is found by   *)
(* walking back while the preceding word lies in the .text RVA range.      *)
(***************************************************************************)
\* self.data[self.rdata_start:self.rdata_start + self.rdata_size]
RData == Slice(rdata_start, rdata_start + rdata_size)

\* set(self.base + rva for rva in known_func_rvas)
TargetVas(known_func_rvas) == { WideOf(base + rva) : rva \in known_func_rvas }

\* lines 546-547: rva = val - base if val > base else 0, then the range test
InTextRange(val) ==
    LET rva == IF WideLess(WideOf(base), val) THEN WideSub(val, WideOf(base))
               ELSE WideOf(0)
    IN  WideLeq(WideOf(text_rva), rva) /\ WideLess(rva, WideOf(text_rva + text_size))

\* _find_vtable_start: the while loop from i
RECURSIVE find_vtable_start(_, _)
find_vtable_start(rdata, i) ==
    IF i >= 8 /\ InTextRange(U64(rdata, i - 8))
    THEN find_vtable_start(rdata, i - 8)
    ELSE i

\* the dict appended for a hit at region offset i with value val
VtableMatch(rdata, i, val) ==
    LET vtable_start == find_vtable_start(rdata, i)
    IN  [vtable_rva |-> rdata_rva + vtable_start,
         vtable_offset |-> rdata_start + vtable_start,
         matched_at_index |-> (i - vtable_start) \div 8,
         matched_rva |-> WideInt(WideSub(val, WideOf(base)))]

\* for i in range(0, len(rdata) - 8, 8), from i on
RECURSIVE VtableScan(_, _, _)
VtableScan(rdata, i, target_vas) ==
    IF ~(i < Len(rdata) - 8) THEN << >>
    ELSE (IF U64(rdata, i) \in target_vas
          THEN << VtableMatch(rdata, i, U64(rdata, i)) >> ELSE << >>)
         \o VtableScan(rdata, i + 8, target_vas)

scan_vtable_in_rdata(known_func_rvas) ==
    IF known_func_rvas = {} THEN << >>
    ELSE VtableScan(RData, 0, TargetVas(known_func_rvas))

(***************************************************************************)
(* The vtable specification: a .text section of VtTextSize bytes at RVA    *)
(* 0 or above, and a .rdata region of up to MaxWords words and an optional *)
(* odd byte.  A word is zero, a code address (the first, the second, the   *)
(* last of the .text range), the address just past the range or a value    *)
(* above 2^32.                                                             *)
(***************************************************************************)
MaxWords == 4

VtTextSize == 24

VtTextRvas == {0, 32}

VtBases == {4096}

VtOddBytes == {0, 1}

\* the RVAs the words and the known addresses are taken from
VtRvas(rv) == {rv, rv + 8, rv + VtTextSize - 1, rv + VtTextSize}

VtWords(b, rv) ==
    { Pack64(b + r) : r \in VtRvas(rv) }
        \cup { Pack64(0), <<255, 255, 255, 255, 255, 255, 255, 255>> }

VtRegions(b, rv) ==
    { Concat(ws) : ws \in UNION { [1..n -> VtWords(b, rv)] : n \in 1..MaxWords } }

InitVt ==
    \E b \in VtBases, rv \in VtTextRvas, odd \in VtOddBytes :
      \E region \in VtRegions(b, rv) :
        LET rd == region \o Fill(odd, 0)
        IN  Constructed(Fill(VtTextSize, 144) \o rd, b,
                        << Sec(".text", VtTextSize, rv, VtTextSize, 0),
                           Sec(".rdata", Len(rd), rv + 64, Len(rd), VtTextSize) >>)

\* the known sets queried: none, each single address, two addresses
VtKnown ==
    { K \in SUBSET VtRvas(text_rva) : Cardinality(K) <= 1 }
        \cup { {text_rva, text_rva + 8} }

QScanVtableInRdata ==
    \E known_func_rvas \in VtKnown :
        /\ Idle
        /\ call' = [op |-> "scan_vtable_in_rdata", known_func_rvas |-> known_func_rvas]
        /\ ret' = scan_vtable_in_rdata(known_func_rvas)
        /\ UNCHANGED image

NextVt == QScanVtableInRdata \/ Return

SpecVt == InitVt /\ [][NextVt]_vars

(***************************************************************************)
(* find_global_pointer_to_rva: repeated bytes.find of the packed target    *)
(* address inside the .data file range, resuming 8 bytes after each match. *)
(***************************************************************************)
\* self.data.find(target_bytes, idx, end): the lowest position pos >= idx
\* with the whole match before min(end, len(self.data)), -1 if there is none
Find(target_bytes, idx, end) ==
    LET limit == Min2(end, DataLen)
        P == { pos \in idx..(limit - Len(target_bytes)) :
                 Slice(pos, pos + Len(target_bytes)) = target_bytes }
    IN  IF P = {} THEN -1 ELSE CHOOSE pos \in P : \A q \in P : pos <= q

\* the while loop from idx
RECURSIVE PointerScan(_, _, _)
PointerScan(target_bytes, idx, end) ==
    IF ~(idx < end) THEN << >>
    ELSE LET pos == Find(target_bytes, idx, end)
         IN  IF pos = -1 THEN << >>
             ELSE << pos >> \o PointerScan(target_bytes, pos + 8, end)

\* struct.pack('<Q', target_va) raises struct.error for a negative target_va
find_global_pointer_to_rva(target_rva) ==
    IF base + target_rva < 0 THEN Raised("struct.error")
    ELSE PointerScan(Pack64(base + target_rva), data_start, data_start + data_size)

(***************************************************************************)
(* The data-pointer specification: a .data region of up to MaxSlots pieces *)
(* after a file lead, each piece a pointer to one of two addresses or a    *)
(* single byte, so that pointers lie on and off the 8-byte grid of the     *)
(* region; the recorded size covers the region or cuts its last byte.      *)
(***************************************************************************)
MaxSlots == 3

PtrRvas == {16, 272}

\* the RVAs queried: the stored ones, one absent, one below -base
PtrTargets == PtrRvas \cup {0, -4097}

PtrBases == {4096}

PtrLeads == {0, 3}

PtrCuts == {0, 1}

PtrPieces(b) == { Pack64(b + r) : r \in PtrRvas } \cup { <<0>>, <<16>> }

PtrRegions(b) ==
    { Concat(ps) : ps \in UNION { [1..n -> PtrPieces(b)] : n \in 0..MaxSlots } }

InitPtr ==
    \E b \in PtrBases, lead \in PtrLeads, cut \in PtrCuts :
      \E region \in PtrRegions(b) :
        Constructed(Fill(lead, 0) \o region, b,
                    << Sec(".data", Len(region), 8192,
                           Max2(Len(region) - cut, 0), lead) >>)

\* a scan that keeps its cursor in the object: the recorded start of .data
\* is left on the position after the last match
QFindGlobalPointerToRvaCursor ==
    \E target_rva \in PtrTargets :
        LET found == find_global_pointer_to_rva(target_rva)
        IN  /\ Idle
            /\ call' = [op |-> "find_global_pointer_to_rva", target_rva |-> target_rva]
            /\ ret' = found
            /\ data_start' = IF base + target_rva < 0 \/ found = << >> THEN data_start
                             ELSE found[Len(found)] + 8
            /\ UNCHANGED <<data, base, sections, text_start, text_size, text_rva,
                           rdata_start, rdata_size, rdata_rva, data_size, data_rva>>

QFindGlobalPointerToRva ==
    \E target_rva \in PtrTargets :
        /\ Idle
        /\ call' = [op |-> "find_global_pointer_to_rva", target_rva |-> target_rva]
        /\ ret' = find_global_pointer_to_rva(target_rva)
        /\ UNCHANGED image

NextPtr == QFindGlobalPointerToRva \/ Return

SpecPtr == InitPtr /\ [][NextPtr]_vars

(***************************************************************************)
(* read_pointer, read_u32, read_i32: an upper-bound test, then             *)
(* struct.unpack_from at the offset.  unpack_from counts a negative offset *)
(* from the end of the buffer and raises struct.error when fewer than n    *)
(* bytes lie at the resulting position.                                    *)
(***************************************************************************)
\* the 0-based position struct.unpack_from reads n bytes at for the given
\* offset, -1 if it raises struct.error
UnpackPosition(offset, n) ==
    IF offset < 0
    THEN (IF offset + n > 0 \/ offset + DataLen < 0 THEN -1 ELSE offset + DataLen)
    ELSE (IF DataLen - offset < n THEN -1 ELSE offset)

\* if offset + n <= len(self.data)
UpperBoundOk(offset, n) == offset + n <= DataLen

read_pointer(offset) ==
    IF UpperBoundOk(offset, 8)
    THEN (IF UnpackPosition(offset, 8) = -1 THEN Raised("struct.error")
          ELSE Some(U64(data, UnpackPosition(offset, 8))))
    ELSE None

read_u32(offset) ==
    IF UpperBoundOk(offset, 4)
    THEN (IF UnpackPosition(offset, 4) = -1 THEN Raised("struct.error")
          ELSE Some(U32(data, UnpackPosition(offset, 4))))
    ELSE None

read_i32(offset) ==
    IF UpperBoundOk(offset, 4)
    THEN (IF UnpackPosition(offset, 4) = -1 THEN Raised("struct.error")
          ELSE Some(I32(data, UnpackPosition(offset, 4))))
    ELSE None

(***************************************************************************)
(* The bounds-checked-read specification: every buffer of up to MaxBuffer  *)
(* bytes over two byte values (one with the top bit set, so that signed    *)
(* and unsigned readings differ), read at every offset from below the      *)
(* buffer to past its end.                                                 *)
(***************************************************************************)
MaxBuffer == 9

ReadBytes == {1, 255}

ReadBuffers == UNION { [1..n -> ReadBytes] : n \in 0..MaxBuffer }

ReadOffsets == (0 - MaxBuffer - 1)..(MaxBuffer + 1)

InitRead ==
    \E d \in ReadBuffers : Constructed(d, 4096, << >>)

QReadPointer ==
    \E offset \in ReadOffsets :
        /\ Idle
        /\ call' = [op |-> "read_pointer", offset |-> offset]
        /\ ret' = read_pointer(offset)
        /\ UNCHANGED image

QReadU32 ==
    \E offset \in ReadOffsets :
        /\ Idle
        /\ call' = [op |-> "read_u32", offset |-> offset]
        /\ ret' = read_u32(offset)
        /\ UNCHANGED image

QReadI32 ==
    \E offset \in ReadOffsets :
        /\ Idle
        /\ call' = [op |-> "read_i32", offset |-> offset]
        /\ ret' = read_i32(offset)
        /\ UNCHANGED image

NextRead == QReadPointer \/ QReadU32 \/ QReadI32 \/ Return

SpecRead == InitRead /\ [][NextRead]_vars

(***************************************************************************)
(* _parse_pe: the header walk of the constructor.  It starts from the      *)
(* state __init__ sets up (default base, no sections, zero bounds), raises *)
(* ValueError on a missing signature and struct.error when a header field  *)
(* lies past the end of the buffer, and otherwise sets the base (for a     *)
(* 64-bit optional header), the section table and the recorded bounds.     *)
(* The base, up to 64 bits, is held in wide form in this specification.    *)
(***************************************************************************)
\* self.base = 0x140000000
DefaultBase == [lo |-> 0, mid |-> 320, hi |-> 0]

\* struct.unpack_from('<H', self.data, k)[0]
U16At(k) == B(k) + 256 * B(k + 1)

\* struct.unpack_from('<I', self.data, k)[0], for a value below 2^31
U32At(k) == B(k) + 256 * B(k + 1) + 65536 * B(k + 2) + 16777216 * B(k + 3)

\* bytes.rstrip(b'\x00')
RECURSIVE RStripZero(_)
RStripZero(bs) ==
    IF bs # << >> /\ bs[Len(bs)] = 0 THEN RStripZero(SubSeq(bs, 1, Len(bs) - 1))
    ELSE bs

\* the ASCII test of decode('ascii', errors='ignore')
IsAscii(c) == c < 128

\* self.data[off:off+8].rstrip(b'\x00').decode('ascii', errors='ignore'), for
\* the section names that occur
DecodeName(bs) ==
    LET n == SelectSeq(RStripZero(bs), IsAscii)
    IN  CASE n = <<46, 116, 101, 120, 116>> -> ".text"
          [] n = <<46, 114, 100, 97, 116, 97>> -> ".rdata"
          [] n = <<46, 100, 97, 116, 97>> -> ".data"
          [] n = <<46, 98, 115, 115>> -> ".bss"
          [] n = << >> -> ""

\* the outcome of _parse_pe: the exception raised ("" if none) and base and
\* sections as they are when it returns or raises
Outcome(e, b, secs) == [err |-> e, base |-> b, sections |-> secs]

\* for i in range(num_sections), from section i on
RECURSIVE ParseSections(_, _, _, _, _)
ParseSections(section_offset, num_sections, i, b, secs) ==
    IF i >= num_sections THEN Outcome("", b, secs)
    ELSE LET off == section_offset + i * 40
         IN  IF off + 24 > DataLen THEN Outcome("struct.error", b, secs)
             ELSE ParseSections(section_offset, num_sections, i + 1, b,
                      Append(secs, Sec(DecodeName(Slice(off, off + 8)),
                                       U32At(off + 8), U32At(off + 12),
                                       U32At(off + 16), U32At(off + 20))))

\* lines 43-50: the COFF and optional headers at coff_offset
ParseHeaders(coff_offset) ==
    LET opt_offset == coff_offset + 20
    IN  IF opt_offset + 2 > DataLen THEN Outcome("struct.error", base, sections)
        ELSE LET num_sections == U16At(coff_offset + 2)
                 optional_header_size == U16At(coff_offset + 16)
                 magic == U16At(opt_offset)
             IN  IF magic = 523 /\ opt_offset + 32 > DataLen
                 THEN Outcome("struct.error", base, sections)
                 ELSE ParseSections(opt_offset + optional_header_size, num_sections, 0,
                                    IF magic = 523 THEN U64(data, opt_offset + 24)
                                    ELSE base,
                                    sections)

parse_pe ==
    IF Slice(0, 2) # <<77, 90>> THEN Outcome("ValueError", base, sections)
    ELSE IF 60 + 4 > DataLen THEN Outcome("struct.error", base, sections)
    ELSE LET e_lfanew == U32At(60)
         IN  IF Slice(e_lfanew, e_lfanew + 4) # <<80, 69, 0, 0>>
             THEN Outcome("ValueError", base, sections)
             ELSE ParseHeaders(e_lfanew + 4)

(***************************************************************************)
(* The constructor specification: files laid out as DOS header, PE         *)
(* signature, COFF header, a 32-byte optional header and up to             *)
(* MaxSections section headers, with a right or wrong leading signature,   *)
(* header offset, PE signature and optional-header magic, whole or cut at  *)
(* a point inside each header.                                             *)
(***************************************************************************)
MaxSections == 2

Le16(n) == << n % 256, n \div 256 >>

Le32(n) == << n % 256, (n \div 256) % 256, (n \div 65536) % 256, n \div 16777216 >>

ParseNames ==
    { <<46, 116, 101, 120, 116, 0, 0, 0>>, <<46, 114, 100, 97, 116, 97, 0, 0>>,
      <<46, 100, 97, 116, 97, 0, 0, 0>>, <<46, 98, 115, 115, 0, 0, 0, 0>> }

ParseLeading == { <<77, 90>>, <<90, 77>> }

ParseHeaderOffsets == {64, 4096}

ParseSignatures == { <<80, 69, 0, 0>>, <<80, 69, 0, 1>> }

\* the 64-bit magic 0x20B and the 32-bit magic 0x10B
ParseMagics == {523, 267}

\* image bases 0x1000 and 0x180000000
ParseBases == { Pack64(4096), <<0, 0, 0, 128, 1, 0, 0, 0>> }

ParseCuts == {0, 1, 62, 66, 70, 84, 89, 118, 130, 100000}

SectionHeader(name, k) ==
    name \o Le32(512 + k) \o Le32(4096 * k) \o Le32(512) \o Le32(512 * k) \o Fill(16, 0)

RECURSIVE SectionHeaders(_, _)
SectionHeaders(names, k) ==
    IF k > Len(names) THEN << >>
    ELSE SectionHeader(names[k], k) \o SectionHeaders(names, k + 1)

PEFile(mz, e_lfanew, sig, magic, imagebase, names) ==
    mz \o Fill(58, 0) \o Le32(e_lfanew)
       \o sig \o Le16(34404) \o Le16(Len(names)) \o Fill(12, 0) \o Le16(32) \o Le16(34)
       \o Le16(magic) \o Fill(22, 0) \o imagebase
       \o SectionHeaders(names, 1)

InitParse ==
    \E mz \in ParseLeading, e_lfanew \in ParseHeaderOffsets, sig \in ParseSignatures,
       magic \in ParseMagics, imagebase \in ParseBases, cut \in ParseCuts,
       names \in UNION { [1..n -> ParseNames] : n \in 0..MaxSections } :
        LET file == PEFile(mz, e_lfanew, sig, magic, imagebase, names)
        IN  Constructed(SubSeq(file, 1, Min2(cut, Len(file))), DefaultBase, << >>)

\* self._parse_pe(), called once by __init__
QParsePE ==
    /\ Idle
    /\ LET r == parse_pe
       IN  /\ call' = [op |-> "_parse_pe"]
           /\ ret' = IF r.err = "" THEN None ELSE Raised(r.err)
           /\ base' = r.base
           /\ sections' = r.sections
           /\ text_start' = Recorded(r.sections, ".text", "raw_offset")
           /\ text_size' = Recorded(r.sections, ".text", "raw_size")
           /\ text_rva' = Recorded(r.sections, ".text", "rva")
           /\ rdata_start' = Recorded(r.sections, ".rdata", "raw_offset")
           /\ rdata_size' = Recorded(r.sections, ".rdata", "raw_size")
           /\ rdata_rva' = Recorded(r.sections, ".rdata", "rva")
           /\ data_start' = Recorded(r.sections, ".data", "raw_offset")
           /\ data_size' = Recorded(r.sections, ".data", "raw_size")
           /\ data_rva' = Recorded(r.sections, ".data", "rva")
    /\ UNCHANGED data

NextParse == QParsePE

SpecParse == InitParse /\ [][NextParse]_vars

(***************************************************************************)
(* find_string: every position of the target in the whole buffer,          *)
(* overlapping occurrences included (the search resumes one byte after     *)
(* each match).  The target is given as bytes.                             *)
(***************************************************************************)
\* the while loop from start
RECURSIVE StringScan(_, _)
StringScan(target, start) ==
    LET idx == Find(target, start, DataLen)
    IN  IF idx = -1 THEN << >>
        ELSE << idx >> \o StringScan(target, idx + 1)

find_string(target) == StringScan(target, 0)

(***************************************************************************)
(* find_all_functions_referencing_string: string search, then reference    *)
(* scan, then boundary resolution, then signature generation, one record   *)
(* per function start not seen before.                                     *)
(***************************************************************************)
\* ' '.join(f'{b:02X}' for b in raw)
RawHex(raw) == JoinSpace([j \in 1..Len(raw) |-> Hex2(raw[j])])

\* the dictionary appended for one reference (lines 354-366)
FunctionRecord(func_start, xref, str_off) ==
    [func_offset |-> func_start,
     func_rva |-> offset_to_rva(func_start),
     xref_offset |-> xref,
     string_offset |-> str_off,
     distance |-> xref - func_start,
     pattern |-> make_smart_pattern(func_start, DefaultLength),
     raw |-> RawHex(Slice(func_start, func_start + DefaultLength))]

\* seen_functions: the function starts recorded so far
SeenFunctions(results) == { results[k].func_offset : k \in 1..Len(results) }

\* for xref in xrefs, from the k-th on; `if func_start` is false for None and 0
RECURSIVE XrefLoop(_, _, _, _)
XrefLoop(xrefs, k, str_off, results) ==
    IF k > Len(xrefs) THEN results
    ELSE LET func_start == find_function_start(xrefs[k], DefaultMaxSearch)
         IN  IF /\ func_start # None
                /\ func_start.val # 0
                /\ func_start.val \notin SeenFunctions(results)
             THEN XrefLoop(xrefs, k + 1, str_off,
                           Append(results,
                                  FunctionRecord(func_start.val, xrefs[k], str_off)))
             ELSE XrefLoop(xrefs, k + 1, str_off, results)

\* for str_off in offsets, from the k-th on
RECURSIVE StringLoop(_, _, _)
StringLoop(offsets, k, results) ==
    IF k > Len(offsets) THEN results
    ELSE StringLoop(offsets, k + 1,
                    XrefLoop(find_string_xrefs(offsets[k]), 1, offsets[k], results))

find_all_functions_referencing_string(string_bytes) ==
    StringLoop(find_string(string_bytes), 1, << >>)

(***************************************************************************)
(* The end-to-end specification: one .text section holding a marker        *)
(* string, a terminator byte, a prologue, filler, one position-relative    *)
(* load whose displacement targets the marker, and filler.  The marker     *)
(* lies before the code or after it, so that the load is followed by few   *)
(* or many bytes; the section starts at the first byte of the file or      *)
(* after it.                                                               *)
(***************************************************************************)
MaxGap == 2

E2EMarkers == { <<75, 78>>, <<75, 69, 78, 83, 72, 73, 33>> }

E2EAbsent == <<90, 90>>

E2ETerminators == {195, 204, 203}

E2EEntries == { <<72, 131, 236, 40>>, <<64, 83>>, <<72, 137, 92, 36, 8>> }

E2EHeads == { <<72, 141, 5>>, <<76, 141, 13>>, <<72, 139, 5>> }

E2EPosts == {0, 5, 7}

E2ELeads == {0, 1}

E2EFileStarts == {0, 1}

E2ETextRvas == {4096}

\* '<i' of a displacement n with -2^24 < n < 2^24
Disp32Bytes(n) ==
    << n % 256, (n \div 256) % 256, (n \div 65536) % 256,
       IF n < 0 THEN 255 ELSE 0 >>

\* the code: filler, terminator, prologue, filler, the load with the
\* displacement disp, filler
E2ECode(lead, term, entry, gap, head, disp, post) ==
    Fill(lead, 144) \o << term >> \o entry \o Fill(gap, 144)
        \o head \o Disp32Bytes(disp) \o Fill(post, 144)

\* the region with the marker after the code: the displacement is the
\* number of bytes between the load's end and the marker
E2EMarkerLast(lead, term, entry, gap, head, post, marker) ==
    E2ECode(lead, term, entry, gap, head, post, post) \o marker

\* the region with the marker first: the displacement reaches back from the
\* load's end to the region's start
E2EMarkerFirst(lead, term, entry, gap, head, post, marker) ==
    marker \o E2ECode(lead, term, entry, gap, head,
                      0 - (Len(marker) + lead + 1 + Len(entry) + gap + 7), post)

E2EImage(fs, rv, region) ==
    Constructed(Fill(fs, 0) \o region, 4096,
                << Sec(".text", Len(region), rv, Len(region), fs) >>)

InitE2E ==
    \E fs \in E2EFileStarts, lead \in E2ELeads, term \in E2ETerminators,
       entry \in E2EEntries, gap \in 0..MaxGap, head \in E2EHeads,
       post \in E2EPosts, marker \in E2EMarkers, rv \in E2ETextRvas :
        \/ E2EImage(fs, rv, E2EMarkerLast(lead, term, entry, gap, head, post, marker))
        \/ E2EImage(fs, rv, E2EMarkerFirst(lead, term, entry, gap, head, post, marker))

QFindAllFunctionsReferencingString ==
    \E string_bytes \in E2EMarkers \cup {E2EAbsent} :
        /\ Idle
        /\ call' = [op |-> "find_all_functions_referencing_string",
                    string_bytes |-> string_bytes]
        /\ ret' = Some(find_all_functions_referencing_string(string_bytes))
        /\ UNCHANGED image

QFindString ==
    \E target \in E2EMarkers \cup {E2EAbsent, << >>} :
        /\ Idle
        /\ call' = [op |-> "find_string", target |-> target]
        /\ ret' = Some(find_string(target))
        /\ UNCHANGED image

NextE2E == QFindAllFunctionsReferencingString \/ QFindString \/ Return

SpecE2E == InitE2E /\ [][NextE2E]_vars

(***************************************************************************)
(* find_data_globals_near_xref: a scan of the code around a reference for  *)
(* position-relative MOV/LEA operands whose target lies in .data.          *)
(***************************************************************************)
DefaultSearchRange == 128

\* the dictionary appended for the instruction at i (lines 507-513)
GlobalRecord(i, instr_rva, target_rva) ==
    [instr_offset |-> i, instr_rva |-> instr_rva, target_rva |-> target_rva,
     instr_type |-> IF B(i + 1) = 141 THEN "LEA" ELSE "MOV"]

\* for i in range(scan_start, scan_end - 6), from i on; an index past the
\* buffer raises IndexError, a displacement cut by its end struct.error
RECURSIVE GlobalsScan(_, _, _)
GlobalsScan(i, scan_end, globals_found) ==
    IF ~(i < scan_end - 6) THEN Some(globals_found)
    ELSE IF i + 1 >= DataLen THEN Raised("IndexError")
    ELSE IF ~(B(i) \in {72, 76} /\ B(i + 1) \in {139, 141})
         THEN GlobalsScan(i + 1, scan_end, globals_found)
    ELSE IF i + 2 >= DataLen THEN Raised("IndexError")
    ELSE IF ~(ModOf(B(i + 2)) = 0 /\ RmOf(B(i + 2)) = 5)
         THEN GlobalsScan(i + 1, scan_end, globals_found)
    ELSE IF i + 7 > DataLen THEN Raised("struct.error")
    ELSE LET instr_rva == offset_to_rva(i)
             target_rva == instr_rva.val + 7 + I32(data, i + 3)
         IN  IF instr_rva = None
             THEN GlobalsScan(i + 1, scan_end, globals_found)
             ELSE IF data_rva <= target_rva /\ target_rva < data_rva + data_size
             THEN GlobalsScan(i + 1, scan_end,
                              Append(globals_found,
                                     GlobalRecord(i, instr_rva.val, target_rva)))
             ELSE GlobalsScan(i + 1, scan_end, globals_found)

find_data_globals_near_xref(xref_offset, search_range) ==
    GlobalsScan(Max2(text_start, xref_offset - search_range),
                Min2(text_start + text_size, xref_offset + search_range),
                << >>)

(***************************************************************************)
(* The whole-parser specification: one image with a .text, a .rdata and a  *)
(* .data section, and every query as an action, in any order and any       *)
(* number of times.  The code holds a terminator, a prologue and a MOV of  *)
(* the global in .data; .rdata holds the marker string; .data holds one    *)
(* code pointer.  The image is kept short: a signature window never has    *)
(* more than some twenty bytes.                                            *)
(***************************************************************************)
AllFileStarts == {0, 1}

AllFills == {0, 1}

AllBases == {4096}

AllTextRvas == {8}

AllRanges == {DefaultSearchRange, 4}

AllImage(fs, fill, b, rv) ==
    LET rdata_rv == rv + 56
        data_rv == rv + 120
        text == << 195, 64, 83, 72, 139, 5 >>
                    \o Disp32Bytes(data_rv - (rv + 3 + 7))
                    \o Fill(fill, 144)
        rdata == << 75, 78 >>
        globals == Pack64(b + 16) \o << 1 >>
    IN  Constructed(Fill(fs, 0) \o text \o rdata \o globals, b,
                    << Sec(".text", Len(text), rv, Len(text), fs),
                       Sec(".rdata", Len(rdata), rdata_rv, Len(rdata), fs + Len(text)),
                       Sec(".data", Len(globals), data_rv, Len(globals),
                           fs + Len(text) + Len(rdata)) >>)

InitAll ==
    \E fs \in AllFileStarts, fill \in AllFills, b \in AllBases, rv \in AllTextRvas :
        AllImage(fs, fill, b, rv)

QFindDataGlobalsNearXref ==
    \E xref_offset \in 0..DataLen, search_range \in AllRanges :
        /\ Idle
        /\ call' = [op |-> "find_data_globals_near_xref", xref_offset |-> xref_offset,
                    search_range |-> search_range]
        /\ ret' = find_data_globals_near_xref(xref_offset, search_range)
        /\ UNCHANGED image

NextAll ==
    \/ QRvaToOffset
    \/ QOffsetToRva
    \/ QFindString
    \/ QFindStringXrefs
    \/ QFindFunctionStart
    \/ QMakeSmartPattern
    \/ QExtractStructOffsets
    \/ QScanVtableInRdata
    \/ QFindGlobalPointerToRva
    \/ QFindDataGlobalsNearXref
    \/ QReadPointer
    \/ QReadU32
    \/ QReadI32
    \/ Return

SpecAll == InitAll /\ [][NextAll]_vars

(***************************************************************************)
(* Claims about address translation.                                       *)
(***************************************************************************)
\* no two sections share a file offset or a file-backed RVA
NonOverlapping ==
    \A j, k \in 1..Len(sections) :
        j < k =>
            /\ \A o \in AddrArgs :
                   ~(OffsetInSection(sections[j], o) /\ OffsetInSection(sections[k], o))
            /\ \A r \in AddrArgs :
                   ~(RvaInSection(sections[j], r) /\ RvaInSection(sections[k], r))

\* C1 as stated: the round trip holds for every file offset of a section and
\* for every RVA of a section's virtual range (zero-fill tail included), in
\* every section table, overlapping or not.
C1_RoundTripEveryTable ==
    /\ (call.op = "roundtrip_offset"
          /\ \E k \in 1..Len(sections) : OffsetInSection(sections[k], call.offset))
        => ret = Some(call.offset)
    /\ (call.op = "roundtrip_rva"
          /\ \E k \in 1..Len(sections) : RvaInSectionVsize(sections[k], call.rva))
        => ret = Some(call.rva)

\* C1 amended: in a section table whose sections do not overlap (in file
\* ranges and in file-backed RVA ranges), rva_to_offset(offset_to_rva(o)) = o
\* for every file offset o of a section, and offset_to_rva(rva_to_offset(r)) = r
\* for every RVA r of a section's file-backed range rva <= r < rva + raw_size;
\* in every table, rva_to_offset returns None for an RVA that lies in no
\* section's file-backed range (a zero-fill tail that no other section backs).
C1_RoundTripDisjoint ==
    /\ NonOverlapping =>
          /\ (call.op = "roundtrip_offset"
                /\ \E k \in 1..Len(sections) : OffsetInSection(sections[k], call.offset))
              => ret = Some(call.offset)
          /\ (call.op = "roundtrip_rva"
                /\ \E k \in 1..Len(sections) : RvaInSection(sections[k], call.rva))
              => ret = Some(call.rva)
    /\ (call.op = "rva_to_offset"
          /\ \A k \in 1..Len(sections) : ~RvaInSection(sections[k], call.rva))
        => ret = None

\* a round trip through the second of two disjoint sections has returned
C1_Witness ==
    /\ NonOverlapping
    /\ Len(sections) = 2
    /\ sections[1].raw_size > 0
    /\ call.op = "roundtrip_rva"
    /\ RvaInSection(sections[2], call.rva)
    /\ sections[2].raw_offset # sections[2].rva
    /\ ret = Some(call.rva)

(***************************************************************************)
(* Claims about reference scanning.                                        *)
(***************************************************************************)
\* a complete recognized 7-byte form lies at region offset i
Recognized7(td, i) ==
    /\ i + 7 <= Len(td)
    /\ \/ td[i + 1] \in {72, 76} /\ td[i + 2] \in {141, 139, 137}
       \/ td[i + 1] = 72 /\ td[i + 2] \in {57, 59}
    /\ ModOf(td[i + 3]) = 0
    /\ RmOf(td[i + 3]) = 5

\* a complete recognized 6-byte form lies at region offset i
Recognized6(td, i) ==
    /\ i + 6 <= Len(td)
    /\ td[i + 1] = 141
    /\ ModOf(td[i + 2]) = 0
    /\ RmOf(td[i + 2]) = 5

\* the locations that encode a position-relative reference to string_va
ReferencesTo(td, string_va) ==
    { text_start + i : i \in { j \in 0..(Len(td) - 1) :
        \/ Recognized7(td, j) /\ RipTarget(td, j, 7) = string_va
        \/ Recognized6(td, j) /\ RipTarget(td, j, 6) = string_va } }

RetSet == { ret[k] : k \in 1..Len(ret) }

StringVa == base + offset_to_rva(call.string_offset).val

XrefsReturned ==
    /\ call.op = "find_string_xrefs"
    /\ offset_to_rva(call.string_offset) # None

\* C2 as stated: find_string_xrefs returns exactly the locations of the
\* complete recognized instructions of the region whose target is the queried
\* address, the instructions in the last bytes of the region included.
C2_ExactReferences ==
    XrefsReturned => RetSet = ReferencesTo(TextData, StringVa)

\* a complete position-relative move 48/4C 8B lies at region offset i
MoveAt(td, i) == Recognized7(td, i) /\ td[i + 2] = 139

\* the region holds one recognized instruction, the move at i, and nothing else
\* that decodes as a recognized form
OnlyMoveAt(td, i) ==
    /\ MoveAt(td, i)
    /\ \A j \in 0..(Len(td) - 1) : j # i => ~Recognized7(td, j) /\ ~Recognized6(td, j)

\* C3 as stated: with one synthetic 7-byte move in the region,
\* find_string_xrefs returns exactly one reference, at the move's start, for
\* the move's target and no reference for any other target.
C3_SingleMove ==
    XrefsReturned =>
        \A i \in 0..(Len(TextData) - 1) :
            OnlyMoveAt(TextData, i) =>
                ret = IF RipTarget(TextData, i, 7) = StringVa
                      THEN << text_start + i >> ELSE << >>

(***************************************************************************)
(* Claims about function-boundary recovery.                                *)
(***************************************************************************)
MaxOf(S) == CHOOSE x \in S : \A y \in S : y <= x

FfsReturned == call.op = "find_function_start"

\* the indices the three scans visit
SearchRange ==
    (SearchStart(call.offset, call.max_search) + 1)..(call.offset - 1)

\* the first index after i + 1's run of trap bytes, at most the offset
TrapEnd(i) ==
    CHOOSE c \in (i + 1)..call.offset :
        /\ c = call.offset \/ B(c) # 204
        /\ \A k \in (i + 1)..(c - 1) : B(k) = 204

\* the indices at most max_search bytes before the offset, inside the region
WithinMaxSearch ==
    SearchStart(call.offset, call.max_search)..(call.offset - 1)

\* the terminator bytes within max_search bytes that are followed, after trap
\* padding, by a prologue match before the offset
Tier1Candidates ==
    { i \in WithinMaxSearch :
        B(i) \in {204, 195} /\ TrapEnd(i) < call.offset /\ is_prologue(TrapEnd(i)) }

\* the prologue matches tier 2 accepts
Tier2Matches ==
    { i \in SearchRange :
        is_prologue(i) /\ call.offset - i < 512 /\ i > 0 /\ B(i - 1) \in {204, 195, 203} }

\* every prologue match of the search range
PrologueMatches == { i \in SearchRange : is_prologue(i) }

\* the region starts [RET][NOP][NOP][prologue], the offset is interior, and
\* between the prologue start and the offset lies no terminator byte and no
\* other prologue match
RetNopNopShape ==
    LET p == text_start + 3
    IN  /\ call.offset > p
        /\ B(p - 3) = 195 /\ B(p - 2) = 144 /\ B(p - 1) = 144
        /\ is_prologue(p)
        /\ \A j \in (p + 1)..(call.offset - 1) :
               B(j) \notin {195, 204, 203} /\ ~is_prologue(j)

\* the same with the leading RET removed: [NOP][NOP][prologue]
NopNopShape ==
    LET p == text_start + 2
    IN  /\ call.offset > p
        /\ B(p - 2) = 144 /\ B(p - 1) = 144
        /\ is_prologue(p)
        /\ \A j \in (p + 1)..(call.offset - 1) :
               B(j) \notin {195, 204, 203} /\ ~is_prologue(j)

\* C4 as stated: for [RET][NOP][NOP][prologue][...interior] and an interior
\* offset, find_function_start returns the prologue start, found by tier 1;
\* with the RET removed the result is tier 2's or tier 3's, or None.
C4_RetNopNopTier1 ==
    (FfsReturned /\ call.max_search = DefaultMaxSearch) =>
        /\ RetNopNopShape =>
              /\ ret = Some(text_start + 3)
              /\ Tier1(call.offset, call.max_search) = Some(text_start + 3)
        /\ NopNopShape =>
              /\ Tier1(call.offset, call.max_search) = None
              /\ ret \in { Tier2(call.offset, call.max_search),
                           Tier3(call.offset, call.max_search) }

\* C5 as stated: the tiers apply in strict order, first success wins.  If a
\* terminator byte CC/C3 within max_search bytes before the offset is followed
\* (after trap padding) by a prologue match before the offset, the match after
\* the nearest such terminator is returned, whatever nearer prologue matches
\* exist; otherwise if a prologue match preceded by CC/C3/CB lies less than
\* 512 bytes back, the nearest such is returned; otherwise the nearest
\* prologue match is returned if it lies less than 256 bytes back; otherwise
\* None.
C5_TierOrder ==
    FfsReturned =>
        IF Tier1Candidates # {}
        THEN ret = Some(TrapEnd(MaxOf(Tier1Candidates)))
        ELSE IF Tier2Matches # {}
        THEN ret = Some(MaxOf(Tier2Matches))
        ELSE IF PrologueMatches # {} /\ call.offset - MaxOf(PrologueMatches) < 256
        THEN ret = Some(MaxOf(PrologueMatches))
        ELSE ret = None

\* C6 as stated: both encodings of the stack-to-frame-pointer copy,
\* 48 8B EC and 48 89 E5, are recognized as a prologue.
C6_BothFrameEncodings ==
    (/\ call.op = "is_prologue"
     /\ call.offset + 5 <= DataLen
     /\ B(call.offset) = 72
     /\ \/ B(call.offset + 1) = 139 /\ B(call.offset + 2) = 236
        \/ B(call.offset + 1) = 137 /\ B(call.offset + 2) = 229)
    => ret = Some(TRUE)

(***************************************************************************)
(* Claims about signature generation.                                      *)
(***************************************************************************)
RECURSIVE SplitAcc(_, _, _, _)
SplitAcc(str, k, cur, out) ==
    IF k > Len(str) THEN Append(out, cur)
    ELSE IF str[k] = " " THEN SplitAcc(str, k + 1, << >>, Append(out, cur))
    ELSE SplitAcc(str, k + 1, Append(cur, str[k]), out)

\* the space-separated tokens of a pattern text (none for the empty text)
PatternTokens(str) == IF str = << >> THEN << >> ELSE SplitAcc(str, 1, << >>, << >>)

UpperHex == { HexDigits[k] : k \in 1..16 }

DigitValue(c) == (CHOOSE k \in 1..16 : HexDigits[k] = c) - 1

\* tok is the two-digit uppercase hexadecimal rendering of byte b
IsHexOf(tok, b) ==
    /\ Len(tok) = 2
    /\ tok[1] \in UpperHex /\ tok[2] \in UpperHex
    /\ 16 * DigitValue(tok[1]) + DigitValue(tok[2]) = b

PatReturned == call.op = "make_smart_pattern"

\* the bytes the call's window holds
CallWindow == Window(call.func_offset, call.length)

\* token k is the wildcard marker or renders byte func_offset + k
TokensMatchBytes(toks) ==
    \A k \in 1..Len(toks) :
        \/ toks[k] = << "?" >>
        \/ /\ call.func_offset + (k - 1) < DataLen
           /\ IsHexOf(toks[k], B(call.func_offset + (k - 1)))

\* C7 as stated: the pattern has exactly as many tokens as the requested
\* window length, token k corresponds to byte func_offset + k, and every
\* token other than '?' is that byte in two uppercase hexadecimal digits.
C7_RequestedLength ==
    (PatReturned /\ call.length >= 0) =>
        LET toks == PatternTokens(ret.val)
        IN  /\ Len(toks) = call.length
            /\ TokensMatchBytes(toks)

\* C7 amended: for 0 <= func_offset <= len(data) and length >= 0 the pattern
\* has exactly min(length, len(data) - func_offset) tokens (the requested
\* length unless the buffer ends first), token k corresponds to byte
\* func_offset + k, and every token other than '?' is that byte in two
\* uppercase hexadecimal digits.
C7_WindowLength ==
    (PatReturned /\ call.length >= 0) =>
        LET toks == PatternTokens(ret.val)
        IN  /\ Len(toks) = Min2(call.length, DataLen - call.func_offset)
            /\ TokensMatchBytes(toks)

\* a window cut by the end of the buffer was rendered with both a wildcard
\* and literal tokens
C7_Witness ==
    /\ PatReturned
    /\ call.func_offset + call.length > DataLen
    /\ call.func_offset > 0
    /\ \E k \in 1..Len(PatternTokens(ret.val)) : PatternTokens(ret.val)[k] = << "?" >>
    /\ \E k \in 1..Len(PatternTokens(ret.val)) :
           IsHexOf(PatternTokens(ret.val)[k], B(call.func_offset + (k - 1)))

\* the window starts with a position-relative LEA: 48/4C 8D, mod = 0, rm = 5
LeaAtWindowStart(w) ==
    /\ Len(w) >= 7
    /\ w[1] \in {72, 76} /\ w[2] = 141
    /\ ModOf(w[3]) = 0 /\ RmOf(w[3]) = 5

\* C8: a window of at least 7 bytes that starts with a position-relative LEA
\* has the wildcard marker at positions 3..6 and the literal bytes at 0..2.
C8_LeaWildcards ==
    (PatReturned /\ LeaAtWindowStart(CallWindow)) =>
        LET toks == PatternTokens(ret.val)
        IN  /\ \A k \in 4..7 : toks[k] = << "?" >>
            /\ \A k \in 1..3 : IsHexOf(toks[k], CallWindow[k])

\* a pattern was returned for a LEA at the start of a window not at offset 0
C8_Witness ==
    /\ PatReturned
    /\ LeaAtWindowStart(CallWindow)
    /\ call.func_offset > 0
    /\ call.length = DefaultLength
    /\ PatternTokens(ret.val)[4] = << "?" >>

\* the scan as C9 describes it: every recognized form, the stack reservations
\* and the spill included, is marked and then skipped as a whole
RECURSIVE SkippingScan(_, _, _)
SkippingScan(d, i, wildcards) ==
    IF ~(i < Len(d)) THEN wildcards
    ELSE IF SpillWild(d, i) # {}
         THEN SkippingScan(d, i + (IF RmOf(D(d, i + 2)) = 4 THEN 5 ELSE 4),
                           wildcards \cup SpillWild(d, i))
    ELSE IF Sub8Wild(d, i) # {}
         THEN SkippingScan(d, i + 4, wildcards \cup Sub8Wild(d, i))
    ELSE IF Sub32Wild(d, i) # {}
         THEN SkippingScan(d, i + 7, wildcards \cup Sub32Wild(d, i))
    ELSE IF IsRel32(d, i, 232) \/ IsRel32(d, i, 233)
         THEN SkippingScan(d, i + 5, wildcards \cup Rel32Wild(i))
    ELSE IF IsRipLea(d, i) \/ IsRipMov(d, i)
         THEN SkippingScan(d, i + 7, wildcards \cup RipWild(i))
    ELSE SkippingScan(d, i + 1, wildcards)

\* C9 as stated: the scan resumes after the whole of each recognized
\* instruction, so no immediate or displacement byte is decoded as the start
\* of another form: the pattern is the one the skipping scan yields.
C9_OperandsNotDecoded ==
    PatReturned =>
        ret.val = Render(CallWindow, SkippingScan(CallWindow, 0, {}))

\* C10: the pattern depends only on the bytes of the window: any call whose
\* window holds the same bytes, at whatever offset and with whatever bytes
\* around it, returns the same pattern.
C10_WindowDetermines ==
    PatReturned =>
        LET w == CallWindow
        IN  \A o2 \in 0..DataLen, l2 \in PatLengths :
                Window(o2, l2) = w => make_smart_pattern(o2, l2) = ret.val

\* the same window lies at two offsets, once with bytes after it and once at
\* the end of the buffer, and holds a call opcode
C10_Witness ==
    /\ PatReturned
    /\ Len(CallWindow) >= 2
    /\ \E k \in 1..Len(CallWindow) : CallWindow[k] = 232
    /\ call.func_offset + Len(CallWindow) < DataLen
    /\ \E o2 \in 0..DataLen :
           /\ o2 # call.func_offset
           /\ o2 + Len(CallWindow) = DataLen
           /\ Window(o2, call.length) = CallWindow
           /\ make_smart_pattern(o2, call.length) = ret.val

\* the forms the signature contract enumerates, anywhere in window d: the
\* positions of their immediate and displacement bytes
EnumeratedOperands(d) ==
    UNION { Sub8Wild(d, i) \cup Sub32Wild(d, i)
            \cup (IF IsRel32(d, i, 232) \/ IsRel32(d, i, 233) THEN Rel32Wild(i) ELSE {})
            \cup (IF IsRipLea(d, i) \/ IsRipMov(d, i) THEN RipWild(i) ELSE {})
            \cup (IF SpillWild(d, i) # {} /\ RmOf(D(d, i + 2)) = 4
                  THEN SpillWild(d, i) ELSE {})
            : i \in 0..(Len(d) - 1) }

\* the 0-based positions of the wildcard markers of a pattern text
WildcardPositions(str) ==
    LET toks == PatternTokens(str)
    IN  { k - 1 : k \in { j \in 1..Len(toks) : toks[j] = << "?" >> } }

\* C11 as stated: the recognition set is closed.  A position of the pattern
\* is a wildcard only if it is an immediate or displacement byte of an
\* enumerated form (stack reservation, position-relative load/move, near
\* call/jump, stack-relative spill); a register store 48/4C 89 with mod = 1
\* and rm # 4 produces no wildcard.
C11_ClosedRecognitionSet ==
    PatReturned => WildcardPositions(ret.val) \subseteq EnumeratedOperands(CallWindow)

(***************************************************************************)
(* Claims about operand-offset extraction.                                 *)
(***************************************************************************)
ExtReturned == call.op = "extract_struct_offsets_from_function"

\* the positions of the body at which a whole instruction can be read
BodySites == call.func_offset..(DataLen - 9)

\* REX.W MOV / MOV store / LEA at i with ModRM mod = m and rm # 4
MovSite(i, m) ==
    /\ B(i) \in {72, 76} /\ B(i + 1) \in {139, 137, 141}
    /\ ModOf(B(i + 2)) = m /\ RmOf(B(i + 2)) # 4

\* scalar-float load (op = 16) or store (op = 17) at i with mod = m and rm # 4
MovssSite(i, op, m) ==
    /\ B(i) = 243 /\ B(i + 1) = 15 /\ B(i + 2) = op
    /\ ModOf(B(i + 3)) = m /\ RmOf(B(i + 3)) # 4

\* an instruction of a recognized kind at i whose 8-bit displacement is k
Site8(i, k) ==
    \/ MovSite(i, 1) /\ B(i + 3) = k
    \/ \E op \in {16, 17} : MovssSite(i, op, 1) /\ B(i + 4) = k

\* an instruction of a recognized kind at i whose 32-bit displacement is k
Site32(i, k) ==
    \/ MovSite(i, 2) /\ I32(data, i + 3) = k
    \/ \E op \in {16, 17} : MovssSite(i, op, 2) /\ I32(data, i + 4) = k

\* C12: every key of the returned mapping is the displacement of an
\* instruction of the body, in 1..254 if that instruction has the 8-bit
\* form and in 1..4095 if it has the 32-bit form; zero, negative and larger
\* displacements are never recorded.
C12_KeysInRange ==
    ExtReturned =>
        \A k \in DOMAIN ret.val :
            \/ k \in 1..254 /\ \E i \in BodySites : Site8(i, k)
            \/ k \in 1..4095 /\ \E i \in BodySites : Site32(i, k)

\* the largest keys of both forms were recorded from a body that also holds
\* nothing else
C12_Witness ==
    /\ ExtReturned
    /\ DOMAIN ret.val = {254, 4095}
    /\ \E i \in BodySites : Site8(i, 254)
    /\ \E i \in BodySites : Site32(i, 4095)

\* the position of the first 0xC3/0xCB byte of the body, the buffer's length
\* if there is none
FirstTerminatorByte ==
    LET T == { p \in call.func_offset..(DataLen - 1) : B(p) \in {195, 203} }
    IN  IF T = {} THEN DataLen ELSE CHOOSE p \in T : \A q \in T : p <= q

\* C13 as stated: every recorded displacement comes from an instruction that
\* starts before the first 0xC3/0xCB byte of the body, whatever that byte is
\* part of, and before func_offset + max_scan.
C13_FirstTerminatorByte ==
    ExtReturned =>
        \A k \in DOMAIN ret.val :
            \E i \in BodySites :
                /\ Site8(i, k) \/ Site32(i, k)
                /\ i < FirstTerminatorByte
                /\ i < call.func_offset + call.max_scan

\* the number of bytes the scan steps over at position i: the length of the
\* instruction it recognizes there, one byte otherwise
StepLen(i, end) ==
    IF IsMovForm(i, end) /\ MovSite(i, 2) THEN 7
    ELSE IF IsMovForm(i, end) /\ MovSite(i, 1) THEN 4
    ELSE IF IsMovssForm(i, end, 16) /\ MovssSite(i, 16, 2) THEN 8
    ELSE IF IsMovssForm(i, end, 16) /\ MovssSite(i, 16, 1) THEN 5
    ELSE IF IsMovssForm(i, end, 17) /\ MovssSite(i, 17, 2) THEN 8
    ELSE 1

\* the positions the scan examines from i on, up to and excluding the first
\* of them that holds a terminator byte or reaches the cap
RECURSIVE Examined(_, _)
Examined(i, end) ==
    IF ~(i < end) \/ B(i) \in {195, 203} THEN {}
    ELSE {i} \cup Examined(i + StepLen(i, end), end)

\* C13 amended: the scan stops at the first terminator byte (0xC3 or 0xCB)
\* it examines, that is the first one that is not an operand byte of a
\* recognized instruction it has stepped over, or at the cap, whichever
\* comes first: every recorded displacement comes from an instruction that
\* starts before the first examined 0xC3/0xCB byte and before
\* func_offset + max_scan.
C13_FirstExaminedTerminator ==
    ExtReturned =>
        LET E == Examined(call.func_offset,
                          ScanEnd(call.func_offset, call.max_scan))
        IN  \A k \in DOMAIN ret.val :
                \E i \in E :
                    /\ Site8(i, k) \/ Site32(i, k)
                    /\ i < call.func_offset + call.max_scan

\* a displacement byte 0xCB was stepped over and recorded, a second
\* instruction was recorded after it, and the instruction after the
\* terminator that follows was not
C13_Witness ==
    /\ ExtReturned
    /\ call.max_scan = DefaultMaxScan
    /\ DOMAIN ret.val = {203, 32}
    /\ \E i \in BodySites : i > FirstTerminatorByte /\ Site8(i, 48)

\* the description the claim expects for an instruction of a recognized kind
\* at i with ModRM byte modrm and displacement disp
ExpectedTag(i, modrm, disp) ==
    IF B(i) = 243
    THEN (IF B(i + 2) = 16 THEN MovssTag(RmOf(modrm), disp)
          ELSE MovssStoreTag(RmOf(modrm), disp))
    ELSE MovTag(B(i + 1), RegOf(modrm), RmOf(modrm), disp)

\* the ModRM byte of the instruction at i
ModRMAt(i) == IF B(i) = 243 THEN B(i + 3) ELSE B(i + 2)

\* the displacement of the instruction at i: the unsigned byte after the
\* ModRM byte if mod = 1, the signed 32-bit value after it otherwise
DispAt(i) ==
    LET at == IF B(i) = 243 THEN i + 4 ELSE i + 3
    IN  IF ModOf(ModRMAt(i)) = 1 THEN B(at) ELSE I32(data, at)

\* the body starts with an instruction of a recognized kind, wholly inside
\* the scanned range with its look-ahead, whose displacement is in range for
\* its form
FirstInstruction ==
    LET i == call.func_offset
    IN  /\ i + 8 <= ScanEnd(call.func_offset, call.max_scan)
        /\ \/ DispAt(i) \in 1..254 /\ Site8(i, DispAt(i))
           \/ DispAt(i) \in 1..4095 /\ Site32(i, DispAt(i))

\* C14 as stated: every recognized kind (MOV, MOV store, LEA, scalar-float
\* load F3 0F 10, scalar-float store F3 0F 11) is recorded in both forms: an
\* in-range 8-bit displacement (mod = 1, rm # 4) and an in-range 32-bit
\* displacement (mod = 2, rm # 4) each produce an entry keyed by the
\* displacement and tagged with the kind (unless a later instruction with
\* the same displacement has overwritten the tag).
C14_BothFormsRecorded ==
    (ExtReturned /\ FirstInstruction) =>
        LET i == call.func_offset
            k == DispAt(i)
        IN  /\ k \in DOMAIN ret.val
            /\ \/ ret.val[k] = ExpectedTag(i, ModRMAt(i), k)
               \/ \E j \in BodySites : j > i /\ (Site8(j, k) \/ Site32(j, k))

(***************************************************************************)
(* Claims about vtable scanning.                                           *)
(***************************************************************************)
VtReturned == call.op = "scan_vtable_in_rdata"

\* the region offsets of the complete pointer-size-aligned words of .rdata
AlignedWords == { i \in 0..(Len(RData) - 8) : i % 8 = 0 }

\* the value val is an address inside the code region
ResolvesToCode(val) ==
    /\ WideLeq(WideOf(base + text_rva), val)
    /\ WideLess(val, WideOf(base + text_rva + text_size))

\* the region offset of the table start of match m, and of its hit
StartOf(m) == m.vtable_offset - rdata_start

HitOf(m) == StartOf(m) + 8 * m.matched_at_index

\* the region is exactly [non-code-value][funcA][funcB][funcC] with three
\* distinct code addresses and a first word that is no code address, neither
\* by its value nor as the backward walk resolves it
VtableShape ==
    /\ Len(RData) = 32
    /\ ~ResolvesToCode(U64(RData, 0))
    /\ ~InTextRange(U64(RData, 0))
    /\ \A i \in {8, 16, 24} : ResolvesToCode(U64(RData, i))
    /\ Cardinality({ U64(RData, i) : i \in {8, 16, 24} }) = 3

\* C15 as stated: for the region [non-code-value][funcA][funcB][funcC], a
\* scan for any one of the three addresses yields one match, whose table
\* start is the position of funcA and whose index is 0, 1 or 2.
C15_ThreePointerTable ==
    (VtReturned /\ VtableShape) =>
        \A i \in {8, 16, 24} :
            TargetVas(call.known_func_rvas) = { U64(RData, i) } =>
                ret = << [vtable_rva |-> rdata_rva + 8,
                          vtable_offset |-> rdata_start + 8,
                          matched_at_index |-> (i - 8) \div 8,
                          matched_rva |-> WideInt(WideSub(U64(RData, i), WideOf(base)))] >>

\* C16 as stated: every complete aligned word of the region, the last one
\* included, whose value is base + rva for a known rva yields exactly one
\* match, and no other word yields a match.
C16_EveryAlignedWord ==
    VtReturned =>
        LET expected == { i \in AlignedWords :
                            U64(RData, i) \in TargetVas(call.known_func_rvas) }
        IN  /\ Len(ret) = Cardinality(expected)
            /\ { HitOf(ret[j]) : j \in 1..Len(ret) } = expected

\* C17 as stated: for every match, with hit offset i and table start s:
\* s <= i, s is 8-aligned, the hit word is a known address, every aligned
\* word in [s, i) is an address inside the code region, and s is 0 or the
\* aligned word before s is not (a value not above the base never is).
C17_TableStart ==
    VtReturned =>
        \A j \in 1..Len(ret) :
            LET s == StartOf(ret[j])
                i == HitOf(ret[j])
            IN  /\ 0 <= s /\ s <= i /\ s % 8 = 0
                /\ i \in AlignedWords
                /\ U64(RData, i) \in TargetVas(call.known_func_rvas)
                /\ ret[j].matched_at_index = (i - s) \div 8
                /\ \A k \in AlignedWords : (s <= k /\ k < i) => ResolvesToCode(U64(RData, k))
                /\ s = 0 \/ ~ResolvesToCode(U64(RData, s - 8))

(***************************************************************************)
(* Claims about data-pointer location.                                     *)
(***************************************************************************)
PtrReturned == call.op = "find_global_pointer_to_rva"

\* C18 as stated: every position returned lies inside the .data file range
\* with the whole 8-byte word inside it, is 8-byte aligned relative to the
\* region start, and holds the little-endian value base + target_rva; an
\* occurrence at an unaligned position is not reported.
C18_AlignedPointers ==
    (PtrReturned /\ base + call.target_rva >= 0) =>
        \A j \in 1..Len(ret) :
            /\ data_start <= ret[j]
            /\ ret[j] + 8 <= data_start + data_size
            /\ (ret[j] - data_start) % 8 = 0
            /\ U64(data, ret[j]) = WideOf(base + call.target_rva)

(***************************************************************************)
(* Claims about bounds-checked reads.                                      *)
(***************************************************************************)
ReadReturned == call.op \in {"read_pointer", "read_u32", "read_i32"}

\* the number of bytes the call reads
ReadWidth == IF call.op = "read_pointer" THEN 8 ELSE 4

\* the bytes of the unsigned value v in wide form, least significant first
WideBytes(v) ==
    << v.lo % 256, (v.lo \div 256) % 256, v.lo \div 65536,
       v.mid % 256, (v.mid \div 256) % 256, v.mid \div 65536,
       v.hi % 256, v.hi \div 256 >>

\* the four bytes of the signed 32-bit value v in two's complement
SignedBytes(v) ==
    << v % 256, (v \div 256) % 256, (v \div 65536) % 256, (v \div 16777216) % 256 >>

\* the returned value is the little-endian reading of bytes bs
IsValueOf(bs) ==
    /\ ret.kind = "value"
    /\ IF call.op = "read_i32"
       THEN SignedBytes(ret.val) = bs
       ELSE /\ WideBytes(ret.val) = bs \o Fill(8 - Len(bs), 0)
            /\ ret.val.lo \in 0..(Limb - 1) /\ ret.val.mid \in 0..(Limb - 1)

\* C20 as stated: for every integer offset a read returns the little-endian
\* value of the n bytes at [offset, offset + n) when that range lies wholly
\* inside the buffer, and None (no exception, no other bytes read) when it
\* does not, negative offsets included.
C20_BoundsCheckedReads ==
    ReadReturned =>
        IF 0 <= call.offset /\ call.offset + ReadWidth <= DataLen
        THEN IsValueOf(Slice(call.offset, call.offset + ReadWidth))
        ELSE ret = None

(***************************************************************************)
(* Claims about construction.                                              *)
(***************************************************************************)
Parsed == call.op = "_parse_pe"

\* construction has failed: an exception left the constructor
ConstructionFailed == ret.kind \in {"ValueError", "struct.error"}

\* the header offset field at 0x3C cannot be read or points past the buffer
HeaderOffsetBad == DataLen < 64 \/ U32At(60) >= DataLen

\* the optional-header magic of a file whose signatures are in place
MagicOf == U16At(U32At(60) + 24)

\* C19 as stated: construction fails when the leading signature 'MZ' is
\* absent, when the header offset field at 0x3C cannot be held by the buffer
\* or points past it, and when the optional-header magic is not 0x20B; a
\* 32-bit image is rejected, not loaded with the default base.
C19_RejectsBadImages ==
    Parsed =>
        /\ Slice(0, 2) # <<77, 90>> => ConstructionFailed
        /\ (Slice(0, 2) = <<77, 90>> /\ HeaderOffsetBad) => ConstructionFailed
        /\ (/\ Slice(0, 2) = <<77, 90>>
            /\ ~HeaderOffsetBad
            /\ Slice(U32At(60), U32At(60) + 4) = <<80, 69, 0, 0>>
            /\ U32At(60) + 26 <= DataLen
            /\ MagicOf # 523) => ConstructionFailed

(***************************************************************************)
(* Claims about overlapping decodings.                                     *)
(***************************************************************************)
\* a complete prefixed load-effective-address 48/4C 8D lies at region offset i
LeaAt(td, i) == Recognized7(td, i) /\ td[i + 2] = 141

\* the instruction at i lies where the scan decodes 7-byte forms
Scanned7(td, i) == i + 6 < Len(td) - 7

\* the region holds one instruction, the prefixed LEA at i: no other position
\* starts a recognized 7-byte form
SingleLeaAt(td, i) ==
    /\ LeaAt(td, i)
    /\ \A j \in 0..(Len(td) - 1) : j # i => ~Recognized7(td, j)

\* C23 as stated: a single 7-byte prefixed LEA at code offset i, inside the
\* part of the region the scan decodes, whose target is the queried address is
\* reported as exactly one reference, at i; its bytes from i + 1 on, which
\* decode as the 6-byte unprefixed form with the same target, are not
\* reported as a second reference.
C23_OneReferencePerLea ==
    XrefsReturned =>
        \A i \in 0..(Len(TextData) - 1) :
            (/\ SingleLeaAt(TextData, i)
             /\ Scanned7(TextData, i)
             /\ RipTarget(TextData, i, 7) = StringVa)
            => ret = << text_start + i >>

(***************************************************************************)
(* Claims about the search range of function-boundary recovery.            *)
(***************************************************************************)
\* the lower search bound of the call: max(text_start, offset - max_search)
LowerBound ==
    IF text_start >= call.offset - call.max_search
    THEN text_start ELSE call.offset - call.max_search

\* the offset of the call lies inside the code region
InteriorOffset ==
    text_start <= call.offset /\ call.offset < text_start + text_size

\* C24: for an interior offset, find_function_start returns None or an offset
\* r strictly between the lower search bound and the offset at which
\* _is_prologue holds; so offset - r lies in 1..max_search - 1, and neither
\* the first byte of the code region nor the byte exactly max_search before
\* the offset is ever returned.
C24_StrictlyInsideRange ==
    (FfsReturned /\ InteriorOffset) =>
        \/ ret = None
        \/ /\ ret.kind = "value"
           /\ LowerBound < ret.val
           /\ ret.val < call.offset
           /\ is_prologue(ret.val)
           /\ 1 <= call.offset - ret.val
           /\ call.offset - ret.val <= call.max_search - 1
           /\ ret.val # text_start
           /\ ret.val # call.offset - call.max_search

\* a prologue preceded by a terminator lies exactly at the lower search bound,
\* inside the region, and the call has returned another, nearer entry
C24_Witness ==
    /\ FfsReturned
    /\ InteriorOffset
    /\ LowerBound = call.offset - call.max_search
    /\ LowerBound > text_start
    /\ is_prologue(LowerBound)
    /\ B(LowerBound - 1) = 195
    /\ ret.kind = "value"
    /\ ret.val = LowerBound + 1 + 3

\* the call's result was produced by the second scan: the first found nothing
Tier2Result ==
    /\ FfsReturned
    /\ Tier1(call.offset, call.max_search) = None
    /\ Tier2(call.offset, call.max_search) # None

\* the prologue matches preceded by 0xCC or 0xC3 with that byte strictly
\* inside the search range
PrecededInside ==
    { j \in (LowerBound + 2)..(call.offset - 1) :
        is_prologue(j) /\ B(j - 1) \in {204, 195} }

\* C25: a tier-2 result r (tier 1 having found nothing) has 0xCB at r - 1, or
\* r - 1 is exactly the lower search bound; whenever a prologue match is
\* preceded by 0xCC or 0xC3 strictly inside the search range, tier 1 succeeds
\* and the call returns the nearest such match.
C25_Tier2OnlyAdds ==
    /\ Tier2Result =>
          /\ ret = Tier2(call.offset, call.max_search)
          /\ B(ret.val - 1) = 203 \/ ret.val - 1 = LowerBound
    /\ (FfsReturned /\ PrecededInside # {}) =>
          /\ Tier1(call.offset, call.max_search) # None
          /\ ret = Some(MaxOf(PrecededInside))

\* tier 2 has returned a match preceded by 0xC3 on the lower search bound,
\* a bound set by max_search inside the region
C25_Witness ==
    /\ Tier2Result
    /\ ret.kind = "value"
    /\ ret.val - 1 = LowerBound
    /\ LowerBound > text_start
    /\ B(ret.val - 1) = 195

(***************************************************************************)
(* Claims about the end-to-end pipeline.                                   *)
(***************************************************************************)
E2EReturned == call.op = "find_all_functions_referencing_string"

\* the marker of the call occurs in the buffer at m and nowhere else
MarkerOnlyAt(m) ==
    \A q \in 0..DataLen :
        (Slice(q, q + Len(call.string_bytes)) = call.string_bytes) <=> q = m

\* a complete position-relative load (LEA or MOV, 48/4C 8D/8B) at region
\* offset i is the only recognized instruction of the region, and its target
\* is the address of file offset m
OneLoadOf(td, i, m) ==
    /\ Recognized7(td, i)
    /\ td[i + 2] \in {141, 139}
    /\ \A j \in 0..(Len(td) - 1) : j # i => ~Recognized7(td, j)
    /\ offset_to_rva(m) # None
    /\ RipTarget(td, i, 7) = base + offset_to_rva(m).val

\* a prologue-shaped sequence starts at p, just after a terminator byte, and
\* only filler lies between it and the file offset x
PrologueBefore(p, x) ==
    /\ text_start < p /\ p < x
    /\ B(p - 1) \in {195, 204, 203}
    /\ \E e \in E2EEntries :
          /\ p + Len(e) <= x
          /\ Slice(p, p + Len(e)) = e
          /\ \A k \in (p + Len(e))..(x - 1) : B(k) = 144

\* every token of the pattern is the wildcard marker or the byte at its
\* position from p on, and the first token is the byte at p
LiteralsAt(pattern, p) ==
    LET toks == PatternTokens(pattern)
    IN  /\ Len(toks) = Min2(DefaultLength, DataLen - p)
        /\ IsHexOf(toks[1], B(p))
        /\ \A k \in 1..Len(toks) :
               toks[k] = << "?" >> \/ IsHexOf(toks[k], B(p + k - 1))

\* the result holds a record for the function at p with a matching pattern
RecordFor(p) ==
    \E k \in 1..Len(ret.val) :
        /\ ret.val[k].func_offset = p
        /\ LiteralsAt(ret.val[k].pattern, p)

\* C22 as stated: for a minimal image (marker string, one position-relative
\* load referencing it, a prologue preceded by a terminator before the load),
\* find_all_functions_referencing_string returns a record whose func_offset
\* is the prologue start and whose pattern's literal tokens equal the bytes
\* at the prologue start.
C22_EndToEnd ==
    E2EReturned =>
        \A m \in 0..DataLen : MarkerOnlyAt(m) =>
            \A x \in text_start..DataLen : OneLoadOf(TextData, x - text_start, m) =>
                \A p \in 1..DataLen : PrologueBefore(p, x) => RecordFor(p)

(***************************************************************************)
(* Claims about the queries as a whole.                                    *)
(***************************************************************************)
\* what the query recorded in call returns on the image of the current state
ResultOnImage ==
    CASE call.op = "rva_to_offset" -> rva_to_offset(call.rva)
      [] call.op = "offset_to_rva" -> offset_to_rva(call.offset)
      [] call.op = "find_string" -> Some(find_string(call.target))
      [] call.op = "find_string_xrefs" -> find_string_xrefs(call.string_offset)
      [] call.op = "find_function_start" ->
             find_function_start(call.offset, call.max_search)
      [] call.op = "make_smart_pattern" ->
             Some(make_smart_pattern(call.func_offset, call.length))
      [] call.op = "extract_struct_offsets_from_function" ->
             Some(extract_struct_offsets_from_function(call.func_offset, call.max_scan))
      [] call.op = "scan_vtable_in_rdata" -> scan_vtable_in_rdata(call.known_func_rvas)
      [] call.op = "find_global_pointer_to_rva" ->
             find_global_pointer_to_rva(call.target_rva)
      [] call.op = "find_data_globals_near_xref" ->
             find_data_globals_near_xref(call.xref_offset, call.search_range)
      [] call.op = "read_pointer" -> read_pointer(call.offset)
      [] call.op = "read_u32" -> read_u32(call.offset)
      [] call.op = "read_i32" -> read_i32(call.offset)
      [] call.op = "none" -> None

\* C21: every query, in any order and any number of times, leaves the byte
\* buffer, the base address, the section table and the recorded .text /
\* .rdata / .data bounds unchanged, and what it returns is what the query
\* returns on that unchanged image, whatever queries ran before it.
C21_QueriesLeaveImage ==
    [](ret = ResultOnImage) /\ [][image' = image]_vars

\* a query has found the global referenced by the code, and the image still
\* holds its three section ranges
C21_Witness ==
    /\ call.op = "find_data_globals_near_xref"
    /\ ret.kind = "value"
    /\ Len(ret.val) = 1
    /\ ret.val[1].instr_type = "MOV"
    /\ ret.val[1].target_rva = data_rva
    /\ text_size > 0 /\ rdata_size > 0 /\ data_size > 0

====
